---- MODULE Spec2Model ----
(***************************************************************************)
(* Ironwood dynamic view extraction: the ViewRegistry (type id ->          *)
(* type-erased extractor / converter closures), the MockBackend that owns  *)
(* a populated registry, and the static ViewExtractor implementations the  *)
(* registry dispatches to.                                                 *)
(***************************************************************************)
EXTENDS Integers, Sequences, FiniteSets, TLC

VARIABLES
    extractors,   \* ViewRegistry.extractors : TypeId -> extraction closure
    converters,   \* ViewRegistry.converters : TypeId -> conversion closure
    backend,      \* a MockBackend instance (owns its own registry)
    view,         \* the view tree the application currently holds
    ctx,          \* the RenderContext the application currently holds
    op,           \* the last call made on the registry / backend
    result,       \* what that call returned
    h_registered, \* history: view types ever passed to register
    h_lastB,      \* history: backend of the most recent register call per view type
    h_replaced,   \* history: view types re-registered with a different backend
    h_ordered,    \* history: no register_converter::<V> came before register::<V>
    h_used,       \* history: an extraction or lookup has been performed
    nregs,        \* number of registration calls made so far
    pc,           \* per-thread position of the concurrent extraction workers
    t_local,      \* per-thread locals (looked-up closure, intermediate value)
    t_result,     \* per-thread returned result
    backend2,     \* a second, independently constructed MockBackend instance
    prev,         \* the call made before the last one, with what it returned
    stack,        \* call stack of an extraction in progress (one frame per extract call)
    visited,      \* the nodes the extraction in progress has been called on, in order
    walk_result,  \* what the extraction in progress returned to its caller
    widget,       \* an interactive component: InteractionState, Interactive or Button
    shared_model, \* the application model behind Arc<Mutex<..>>
    mutex,        \* the worker holding the model's mutex (0: unlocked)
    w_pc,         \* per-worker position in its update loop
    w_i,          \* per-worker index of the next interaction message
    w_local,      \* per-worker local: the clone it read, then the updated model
    h_calls       \* history: the builder calls made on the container under construction

vars == <<extractors, converters, backend, view, ctx, op, result,
          h_registered, h_lastB, h_replaced, h_ordered, h_used, nregs,
          pc, t_local, t_result, backend2, prev, stack, visited, walk_result,
          widget, shared_model, mutex, w_pc, w_i, w_local, h_calls>>

historyVars == <<h_registered, h_lastB, h_replaced, h_ordered>>
threadVars == <<pc, t_local, t_result>>
dynVars == <<backend2, prev>>
walkVars == <<stack, visited, walk_result>>
workerVars == <<shared_model, mutex, w_pc, w_i, w_local>>
appVars == <<widget, workerVars, h_calls>>

-----------------------------------------------------------------------------
(* Bounds *)

\* registration calls (register + register_converter) made on one registry
MaxRegs == 2
\* worker threads extracting from the shared backend
NThreads == 2

-----------------------------------------------------------------------------
(* Results and errors (extraction.rs) *)

Ok(x) == [ok |-> TRUE, val |-> x]
Err(e) == [ok |-> FALSE, err |-> e]

UnregisteredType(tid) ==
    [kind |-> "UnregisteredType", type_name |-> "dyn View", type_id |-> tid]
DowncastFailed(expected, actual) ==
    [kind |-> "DowncastFailed", expected_type |-> expected, actual_type_id |-> actual]
OutputDowncastFailed(expected) ==
    [kind |-> "OutputDowncastFailed", expected_type |-> expected]

\* result slot before any call has returned
NoResult == Err([kind |-> "NoCall"])

\* the `prev` slot before two calls have been made
NoCall == [op |-> [name |-> "none"], ctx |-> [instance |-> 0, placeholder |-> "unit"],
           result |-> NoResult]

\* RenderContext::new(); `instance` distinguishes two separately created contexts
RenderContext_new(i) == [instance |-> i, placeholder |-> "unit"]

\* Box<dyn Any>: a value together with its runtime type
Box(tyName, x) == [ty |-> tyName, v |-> x]

-----------------------------------------------------------------------------
(* Views *)

TextStyle_default == [font_size |-> 16, color |-> "BLACK"]

Text_new(c) ==
    [ty |-> "Text", as_any_impl |-> "self",
     v |-> [content |-> c, style |-> TextStyle_default]]

Text_font_size(t, size) == [t EXCEPT !.v.style.font_size = size]

Text_color(t, c) == [t EXCEPT !.v.style.color = c]

\* Button::new(text).view() with the given interaction flags
ButtonView_of(c, state) ==
    [ty |-> "ButtonView", as_any_impl |-> "self",
     v |-> [text |-> Text_new(c).v, background_color |-> "LIGHT_GRAY",
            interaction_state |-> state]]

Spacer_min_size(n) ==
    [ty |-> "Spacer", as_any_impl |-> "self", v |-> [min_size |-> n]]

VStack_dynamic ==
    [ty |-> "VStackDyn", as_any_impl |-> "self",
     v |-> [children |-> <<>>, alignment |-> "Leading", spacing |-> 0]]

HStack_dynamic ==
    [ty |-> "HStackDyn", as_any_impl |-> "self",
     v |-> [children |-> <<>>, alignment |-> "Leading", spacing |-> 0]]

Stack_child(s, c) == [s EXCEPT !.v.children = Append(@, c)]

\* variant: the children are added whatever the condition
Stack_conditional_children_always(s, condition, children) ==
    [s EXCEPT !.v.children = @ \o children]

\* VStack::conditional_children / HStack::conditional_children
Stack_conditional_children(s, condition, children) ==
    IF condition THEN [s EXCEPT !.v.children = @ \o children] ELSE s

Stack_spacing(s, n) == [s EXCEPT !.v.spacing = n]

Stack_alignment(s, a) == [s EXCEPT !.v.alignment = a]

\* Option<V> as a view: Some(w) or None
Option_some(w) == [ty |-> "Option", as_any_impl |-> "self", v |-> [some |-> <<w>>]]

Option_none == [ty |-> "Option", as_any_impl |-> "self", v |-> [some |-> <<>>]]

\* a tuple of views (V1, ..., Vn)
Tuple_of(elems) == [ty |-> "Tuple", as_any_impl |-> "self", v |-> [elems |-> elems]]

\* VStack::new(content) / HStack::new(content): statically typed containers
VStack_new(content) ==
    [ty |-> "VStackStatic", as_any_impl |-> "self",
     v |-> [inner |-> content, alignment |-> "Leading", spacing |-> 0]]

HStack_new(content) ==
    [ty |-> "HStackStatic", as_any_impl |-> "self",
     v |-> [inner |-> content, alignment |-> "Leading", spacing |-> 0]]

\* the unit view ()
Unit_view == [ty |-> "Unit", as_any_impl |-> "self", v |-> [unit |-> TRUE]]

\* a View implemented outside the crate: it wraps a Text label, and its
\* as_any returns either itself or a reference to the label
UserView_of(label, impl) ==
    [ty |-> "UserView", as_any_impl |-> impl, v |-> [label |-> label]]

\* view.type_id(): the concrete type behind the &dyn View
type_id(w) == w.ty

\* view.as_any()
as_any(w) == IF w.as_any_impl = "self" THEN w ELSE w.v.label

\* TypeId::of::<V>() / type_name::<V>()
TypeId_of(V) == V

\* HashMap::insert: add the entry or overwrite the one stored under the key
HashMap_insert(m, k, x) ==
    [kk \in (DOMAIN m) \cup {k} |-> IF kk = k THEN x ELSE m[kk]]

\* HashMap::new()
HashMap_new == [kk \in {} |-> kk]

-----------------------------------------------------------------------------
(* Interactive components (interaction.rs, widgets/button.rs)              *)

\* InteractionState: u8 bitflags (ENABLED is written ENABLED_FLAG here)
ENABLED_FLAG == 1
PRESSED == 2
FOCUSED == 4
HOVERED == 8

\* the largest u8
U8_MAX == 255

RECURSIVE BitAnd(_, _)
\* a & b on the underlying bits
BitAnd(a, b) ==
    IF a = 0 \/ b = 0 THEN 0
    ELSE (a % 2) * (b % 2) + 2 * BitAnd(a \div 2, b \div 2)

RECURSIVE BitOr(_, _)
\* a | b on the underlying bits
BitOr(a, b) ==
    IF a = 0 THEN b
    ELSE IF b = 0 THEN a
    ELSE (IF a % 2 = 1 \/ b % 2 = 1 THEN 1 ELSE 0) + 2 * BitOr(a \div 2, b \div 2)

\* InteractionState::all().bits()
AllFlags == BitOr(BitOr(ENABLED_FLAG, PRESSED), BitOr(FOCUSED, HOVERED))

\* !flag: the complement, truncated to the defined flags
FlagNot(f) == BitAnd(U8_MAX - f, AllFlags)

\* state.contains(flag)
contains(s, f) == BitAnd(s, f) = f

\* state.set(flag, value): insert the flag or remove it
set(s, f, value) == IF value THEN BitOr(s, f) ELSE BitAnd(s, U8_MAX - f)

\* <InteractionState as Default>::default()
InteractionState_default == ENABLED_FLAG

InteractionState_is_enabled(s) == contains(s, ENABLED_FLAG)
InteractionState_enable(s) == BitOr(s, ENABLED_FLAG)
InteractionState_disable(s) == BitAnd(s, FlagNot(ENABLED_FLAG))

InteractionState_is_pressed(s) == contains(s, PRESSED)
InteractionState_press(s) == BitOr(s, PRESSED)

\* variant: releasing a press also drops the hover
InteractionState_release_and_unhover(s) ==
    BitAnd(s, FlagNot(BitOr(PRESSED, HOVERED)))

InteractionState_release(s) == BitAnd(s, FlagNot(PRESSED))

InteractionState_is_focused(s) == contains(s, FOCUSED)

\* variant: the trait's default body
InteractionState_can_receive_focus_default(s) == TRUE

InteractionState_can_receive_focus(s) == contains(s, ENABLED_FLAG)

InteractionState_focus(s) == BitOr(s, FOCUSED)
InteractionState_unfocus(s) == BitAnd(s, FlagNot(FOCUSED))

InteractionState_is_hovered(s) == contains(s, HOVERED)
InteractionState_hover(s) == BitOr(s, HOVERED)
InteractionState_unhover(s) == BitAnd(s, FlagNot(HOVERED))

\* InteractionMessage
EnabledChanged(b) == [tag |-> "EnabledChanged", value |-> b]
PressStateChanged(b) == [tag |-> "PressStateChanged", value |-> b]
FocusChanged(b) == [tag |-> "FocusChanged", value |-> b]
HoverChanged(b) == [tag |-> "HoverChanged", value |-> b]

InteractionMessages ==
    {EnabledChanged(b) : b \in BOOLEAN} \cup {PressStateChanged(b) : b \in BOOLEAN}
        \cup {FocusChanged(b) : b \in BOOLEAN} \cup {HoverChanged(b) : b \in BOOLEAN}

\* Interactive::with_state
Interactive_with_state(s) == [state |-> s]

\* Interactive::new
Interactive_new == Interactive_with_state(InteractionState_default)

\* <Interactive as Model>::update
Interactive_update(i, message) ==
    LET new_state ==
            CASE message.tag = "EnabledChanged" -> set(i.state, ENABLED_FLAG, message.value)
              [] message.tag = "PressStateChanged" -> set(i.state, PRESSED, message.value)
              [] message.tag = "FocusChanged" -> set(i.state, FOCUSED, message.value)
              [] message.tag = "HoverChanged" -> set(i.state, HOVERED, message.value)
    IN [state |-> new_state]

Interactive_is_enabled(i) == InteractionState_is_enabled(i.state)
Interactive_enable(i) == [state |-> InteractionState_enable(i.state)]
Interactive_disable(i) == [state |-> InteractionState_disable(i.state)]
Interactive_is_pressed(i) == InteractionState_is_pressed(i.state)
Interactive_press(i) == [state |-> InteractionState_press(i.state)]
Interactive_release(i) == [state |-> InteractionState_release(i.state)]
Interactive_is_focused(i) == InteractionState_is_focused(i.state)
Interactive_can_receive_focus(i) == InteractionState_can_receive_focus(i.state)
Interactive_focus(i) == [state |-> InteractionState_focus(i.state)]
Interactive_unfocus(i) == [state |-> InteractionState_unfocus(i.state)]
Interactive_is_hovered(i) == InteractionState_is_hovered(i.state)
Interactive_hover(i) == [state |-> InteractionState_hover(i.state)]
Interactive_unhover(i) == [state |-> InteractionState_unhover(i.state)]

\* ButtonMessage
Clicked == [tag |-> "Clicked"]
Interaction(m) == [tag |-> "Interaction", msg |-> m]

ButtonMessages == {Clicked} \cup {Interaction(m) : m \in InteractionMessages}

\* Button::new
Button_new(t) ==
    [text |-> Text_new(t).v, background_color |-> "LIGHT_GRAY",
     interactive |-> Interactive_new]

\* Button::background_color
Button_background_color(b, color) == [b EXCEPT !.background_color = color]

\* variant: a completed click releases the press
Button_update_click_releases(b, message) ==
    IF message.tag = "Clicked"
    THEN [b EXCEPT !.interactive = Interactive_release(b.interactive)]
    ELSE [b EXCEPT !.interactive = Interactive_update(b.interactive, message.msg)]

\* <Button as Model>::update
Button_update(b, message) ==
    IF message.tag = "Clicked" THEN b
    ELSE [b EXCEPT !.interactive = Interactive_update(b.interactive, message.msg)]

\* <Button as Model>::view
Button_view(b) ==
    [ty |-> "ButtonView", as_any_impl |-> "self",
     v |-> [text |-> b.text, background_color |-> b.background_color,
            interaction_state |-> b.interactive.state]]

Button_is_enabled(b) == Interactive_is_enabled(b.interactive)
Button_enable(b) == [b EXCEPT !.interactive = Interactive_enable(b.interactive)]
Button_disable(b) == [b EXCEPT !.interactive = Interactive_disable(b.interactive)]
Button_is_pressed(b) == Interactive_is_pressed(b.interactive)
Button_press(b) == [b EXCEPT !.interactive = Interactive_press(b.interactive)]
Button_release(b) == [b EXCEPT !.interactive = Interactive_release(b.interactive)]
Button_is_focused(b) == Interactive_is_focused(b.interactive)
Button_can_receive_focus(b) == Interactive_can_receive_focus(b.interactive)
Button_focus(b) == [b EXCEPT !.interactive = Interactive_focus(b.interactive)]
Button_unfocus(b) == [b EXCEPT !.interactive = Interactive_unfocus(b.interactive)]
Button_is_hovered(b) == Interactive_is_hovered(b.interactive)
Button_hover(b) == [b EXCEPT !.interactive = Interactive_hover(b.interactive)]
Button_unhover(b) == [b EXCEPT !.interactive = Interactive_unhover(b.interactive)]

-----------------------------------------------------------------------------
(* ViewExtractor implementations (static path) and the registry's          *)
(* type-erased dispatch.  The dynamic containers extract their children    *)
(* through a fresh MockBackend, so these operators are mutually recursive. *)

RECURSIVE extract(_, _, _)
RECURSIVE CallExtractor(_, _, _)
RECURSIVE extract_dynamic(_, _, _)
RECURSIVE extract_and_convert(_, _, _, _)
RECURSIVE MockBackend_extract_dynamic(_, _, _)
RECURSIVE CollectChildren(_, _, _)
RECURSIVE ExtractElems(_, _, _)
RECURSIVE Extractable(_, _)

\* tuple arities MockBackend implements ViewExtractor for
MinArity == 2
MaxArity == 12

\* the view types B implements ViewExtractor for (the bound B: ViewExtractor<V>)
Implements(B) ==
    CASE B = "MockBackend" -> {"Text", "ButtonView", "Spacer", "VStackDyn", "HStackDyn"}
      [] B = "TestBackend" -> {"Text"}
      [] B = "UserBackend" -> {"UserView"}

\* the bound `B: ViewExtractor<V>` for the type of the view tree w: the
\* generic Option, tuple and static container implementations of MockBackend
\* require it of their components
Extractable(B, w) ==
    CASE w.ty = "Option" ->
            B = "MockBackend" /\ \A i \in 1..Len(w.v.some) : Extractable(B, w.v.some[i])
      [] w.ty = "Tuple" ->
            /\ B = "MockBackend"
            /\ Len(w.v.elems) \in MinArity..MaxArity
            /\ \A i \in 1..Len(w.v.elems) : Extractable(B, w.v.elems[i])
      [] w.ty \in {"VStackStatic", "HStackStatic"} ->
            B = "MockBackend" /\ Extractable(B, w.v.inner)
      [] OTHER -> w.ty \in Implements(B)

\* <B as ViewExtractor<V>>::Output
OutputType(B, V) ==
    CASE B = "MockBackend" /\ V = "Text" -> "MockText"
      [] B = "MockBackend" /\ V = "ButtonView" -> "MockButton"
      [] B = "MockBackend" /\ V = "Spacer" -> "MockSpacer"
      [] B = "MockBackend" /\ V = "VStackDyn" -> "MockVStack"
      [] B = "MockBackend" /\ V = "HStackDyn" -> "MockHStack"
      [] B = "TestBackend" /\ V = "Text" -> "String"
      [] B = "UserBackend" /\ V = "UserView" -> "UserOutput"

\* register: the closure stored under V's type id captures V and B
ExtractorClosure(V, B) == [V |-> V, B |-> B]

\* register_converter: the closure captures E and the converter f
ConverterClosure(E, f) == [E |-> E, f |-> f]

\* the converters MockBackend::new registers: the MockDynamicChild variant
\* constructors, each taking the extracted type E
MockDynamicChild(variant, x) ==
    Box("MockDynamicChild", [variant |-> variant, payload |-> x])

\* converter(*extracted) for a converter f
ApplyConverter(f, x) == MockDynamicChild(f, x)

\* variant: the Spacer converter wraps its output in the Text variant
MockBackend_new_spacer_as_text ==
    LET e1 == HashMap_insert(HashMap_new, TypeId_of("Text"), ExtractorClosure("Text", "MockBackend"))
        e2 == HashMap_insert(e1, TypeId_of("ButtonView"), ExtractorClosure("ButtonView", "MockBackend"))
        e3 == HashMap_insert(e2, TypeId_of("Spacer"), ExtractorClosure("Spacer", "MockBackend"))
        e4 == HashMap_insert(e3, TypeId_of("VStackDyn"), ExtractorClosure("VStackDyn", "MockBackend"))
        e5 == HashMap_insert(e4, TypeId_of("HStackDyn"), ExtractorClosure("HStackDyn", "MockBackend"))
        c1 == HashMap_insert(HashMap_new, TypeId_of("Text"), ConverterClosure("MockText", "Text"))
        c2 == HashMap_insert(c1, TypeId_of("ButtonView"), ConverterClosure("MockButton", "Button"))
        c3 == HashMap_insert(c2, TypeId_of("Spacer"), ConverterClosure("MockSpacer", "Text"))
        c4 == HashMap_insert(c3, TypeId_of("VStackDyn"), ConverterClosure("MockVStack", "VStack"))
        c5 == HashMap_insert(c4, TypeId_of("HStackDyn"), ConverterClosure("MockHStack", "HStack"))
    IN [registry |-> [extractors |-> e5, converters |-> c5]]

\* variant: only the three leaf view types are registered
MockBackend_new_leaves_only ==
    LET e1 == HashMap_insert(HashMap_new, TypeId_of("Text"), ExtractorClosure("Text", "MockBackend"))
        e2 == HashMap_insert(e1, TypeId_of("ButtonView"), ExtractorClosure("ButtonView", "MockBackend"))
        e3 == HashMap_insert(e2, TypeId_of("Spacer"), ExtractorClosure("Spacer", "MockBackend"))
        c1 == HashMap_insert(HashMap_new, TypeId_of("Text"), ConverterClosure("MockText", "Text"))
        c2 == HashMap_insert(c1, TypeId_of("ButtonView"), ConverterClosure("MockButton", "Button"))
        c3 == HashMap_insert(c2, TypeId_of("Spacer"), ConverterClosure("MockSpacer", "Spacer"))
    IN [registry |-> [extractors |-> e3, converters |-> c3]]

\* variant: the Spacer converter is not registered
MockBackend_new_no_spacer_converter ==
    LET e1 == HashMap_insert(HashMap_new, TypeId_of("Text"), ExtractorClosure("Text", "MockBackend"))
        e2 == HashMap_insert(e1, TypeId_of("ButtonView"), ExtractorClosure("ButtonView", "MockBackend"))
        e3 == HashMap_insert(e2, TypeId_of("Spacer"), ExtractorClosure("Spacer", "MockBackend"))
        e4 == HashMap_insert(e3, TypeId_of("VStackDyn"), ExtractorClosure("VStackDyn", "MockBackend"))
        e5 == HashMap_insert(e4, TypeId_of("HStackDyn"), ExtractorClosure("HStackDyn", "MockBackend"))
        c1 == HashMap_insert(HashMap_new, TypeId_of("Text"), ConverterClosure("MockText", "Text"))
        c2 == HashMap_insert(c1, TypeId_of("ButtonView"), ConverterClosure("MockButton", "Button"))
        c4 == HashMap_insert(c2, TypeId_of("VStackDyn"), ConverterClosure("MockVStack", "VStack"))
        c5 == HashMap_insert(c4, TypeId_of("HStackDyn"), ConverterClosure("MockHStack", "HStack"))
    IN [registry |-> [extractors |-> e5, converters |-> c5]]

\* MockBackend::new(): five extractors, then five converters
MockBackend_new ==
    LET e1 == HashMap_insert(HashMap_new, TypeId_of("Text"), ExtractorClosure("Text", "MockBackend"))
        e2 == HashMap_insert(e1, TypeId_of("ButtonView"), ExtractorClosure("ButtonView", "MockBackend"))
        e3 == HashMap_insert(e2, TypeId_of("Spacer"), ExtractorClosure("Spacer", "MockBackend"))
        e4 == HashMap_insert(e3, TypeId_of("VStackDyn"), ExtractorClosure("VStackDyn", "MockBackend"))
        e5 == HashMap_insert(e4, TypeId_of("HStackDyn"), ExtractorClosure("HStackDyn", "MockBackend"))
        c1 == HashMap_insert(HashMap_new, TypeId_of("Text"), ConverterClosure("MockText", "Text"))
        c2 == HashMap_insert(c1, TypeId_of("ButtonView"), ConverterClosure("MockButton", "Button"))
        c3 == HashMap_insert(c2, TypeId_of("Spacer"), ConverterClosure("MockSpacer", "Spacer"))
        c4 == HashMap_insert(c3, TypeId_of("VStackDyn"), ConverterClosure("MockVStack", "VStack"))
        c5 == HashMap_insert(c4, TypeId_of("HStackDyn"), ConverterClosure("MockHStack", "HStack"))
    IN [registry |-> [extractors |-> e5, converters |-> c5]]

\* variant: #[derive(Default)], an instance with an empty registry
MockBackend_default_derived ==
    [registry |-> [extractors |-> HashMap_new, converters |-> HashMap_new]]

\* <MockBackend as Default>::default()
MockBackend_default == MockBackend_new

\* variant: the outputs are collected in reverse order
CollectChildren_reversed(be, children, c) ==
    IF children = <<>> THEN Ok(<<>>)
    ELSE LET first == MockBackend_extract_dynamic(be, Head(children), c)
         IN IF ~first.ok THEN first
            ELSE LET rest == CollectChildren(be, Tail(children), c)
                 IN IF ~rest.ok THEN rest
                    ELSE Ok(rest.val \o <<first.val>>)

\* variant: a child that fails to extract is left out (filter_map)
CollectChildren_skip_failed(be, children, c) ==
    IF children = <<>> THEN Ok(<<>>)
    ELSE LET first == MockBackend_extract_dynamic(be, Head(children), c)
             rest == CollectChildren(be, Tail(children), c)
         IN IF ~rest.ok THEN rest
            ELSE IF ~first.ok THEN rest
                 ELSE Ok(<<first.val>> \o rest.val)

\* view.content.iter().map(extract_from_view_with_backend).collect():
\* the children's outputs in order, or the first error
CollectChildren(be, children, c) ==
    IF children = <<>> THEN Ok(<<>>)
    ELSE LET first == MockBackend_extract_dynamic(be, Head(children), c)
         IN IF ~first.ok THEN first
            ELSE LET rest == CollectChildren(be, Tail(children), c)
                 IN IF ~rest.ok THEN rest
                    ELSE Ok(<<first.val>> \o rest.val)

\* Ok((Self::extract(&view.0, context)?, ..., Self::extract(&view.n, context)?)):
\* the elements' outputs left to right, or the first error
ExtractElems(B, elems, c) ==
    IF elems = <<>> THEN Ok(<<>>)
    ELSE LET first == extract(B, Head(elems), c)
         IN IF ~first.ok THEN first
            ELSE LET rest == ExtractElems(B, Tail(elems), c)
                 IN IF ~rest.ok THEN rest
                    ELSE Ok(<<first.val>> \o rest.val)

\* B::extract(view, ctx) for view of type V = w.ty
extract(B, w, c) ==
    CASE B = "MockBackend" /\ w.ty = "Text" ->
            Ok([content |-> w.v.content,
                font_size |-> w.v.style.font_size,
                color |-> w.v.style.color])
      [] B = "MockBackend" /\ w.ty = "ButtonView" ->
            Ok([text |-> w.v.text.content,
                background_color |-> w.v.background_color,
                text_style |-> w.v.text.style,
                interaction_state |-> w.v.interaction_state])
      [] B = "MockBackend" /\ w.ty = "Spacer" ->
            Ok([min_size |-> w.v.min_size])
      [] B = "MockBackend" /\ w.ty \in {"VStackDyn", "HStackDyn"} ->
            LET new_backend == MockBackend_new
                extracted_children == CollectChildren(new_backend, w.v.children, c)
            IN IF ~extracted_children.ok THEN extracted_children
               ELSE Ok([children |-> extracted_children.val,
                        alignment |-> w.v.alignment,
                        spacing |-> w.v.spacing])
      [] B = "MockBackend" /\ w.ty = "Option" ->
            IF w.v.some = <<>> THEN Ok([some |-> <<>>])
            ELSE LET inner == extract(B, w.v.some[1], c)
                 IN IF ~inner.ok THEN inner ELSE Ok([some |-> <<inner.val>>])
      [] B = "MockBackend" /\ w.ty = "Tuple" ->
            LET outs == ExtractElems(B, w.v.elems, c)
            IN IF ~outs.ok THEN outs ELSE Ok([elems |-> outs.val])
      [] B = "MockBackend" /\ w.ty \in {"VStackStatic", "HStackStatic"} ->
            LET content == extract(B, w.v.inner, c)
            IN IF ~content.ok THEN content
               ELSE Ok([inner |-> content.val,
                        alignment |-> w.v.alignment,
                        spacing |-> w.v.spacing])
      [] B = "TestBackend" /\ w.ty = "Text" ->
            Ok([string |-> w.v.content])
      [] B = "UserBackend" /\ w.ty = "UserView" ->
            Ok([label_text |-> w.v.label.v.content])

\* the type-erased extraction closure built by register::<V, B>
CallExtractor(cl, view_any, c) ==
    IF type_id(view_any) # TypeId_of(cl.V)
    THEN Err(DowncastFailed(cl.V, type_id(view_any)))
    ELSE LET extracted == extract(cl.B, view_any, c)
         IN IF ~extracted.ok THEN extracted
            ELSE Ok(Box(OutputType(cl.B, cl.V), extracted.val))

\* variant: the closure downcasts to the converted type C instead of E
CallConverter_downcast_C(cl, extracted_any) ==
    IF extracted_any.ty # "MockDynamicChild"
    THEN Err(OutputDowncastFailed(cl.E))
    ELSE Ok(ApplyConverter(cl.f, extracted_any.v))

\* variant: the extracted value is handed to the converter without a checked downcast
CallConverter_unchecked(cl, extracted_any) ==
    Ok(ApplyConverter(cl.f, extracted_any.v))

\* the type-erased conversion closure built by register_converter::<V, E, C, F>
CallConverter(cl, extracted_any) ==
    IF extracted_any.ty # cl.E
    THEN Err(OutputDowncastFailed(cl.E))
    ELSE Ok(ApplyConverter(cl.f, extracted_any.v))

\* ViewRegistry::is_registered::<V>
is_registered(exs, V) == TypeId_of(V) \in DOMAIN exs

\* ViewRegistry::len
len(exs) == Cardinality(DOMAIN exs)

\* ViewRegistry::is_empty
is_empty(exs) == DOMAIN exs = {}

\* variant: the lookup key is taken from view.as_any() instead of the view
extract_dynamic_keyed_by_any(exs, w, c) ==
    LET tid == type_id(as_any(w))
    IN IF tid \notin DOMAIN exs
       THEN Err(UnregisteredType(tid))
       ELSE CallExtractor(exs[tid], as_any(w), c)

\* variant: a miss on Some(v) falls back to the lookup of v
extract_dynamic_unwrapping(exs, w, c) ==
    LET tid == type_id(w)
    IN IF tid \notin DOMAIN exs
       THEN IF w.ty = "Option" /\ w.v.some # <<>>
            THEN extract_dynamic(exs, w.v.some[1], c)
            ELSE Err(UnregisteredType(tid))
       ELSE CallExtractor(exs[tid], as_any(w), c)

\* ViewRegistry::extract_dynamic::<B>
extract_dynamic(exs, w, c) ==
    LET tid == type_id(w)
    IN IF tid \notin DOMAIN exs
       THEN Err(UnregisteredType(tid))
       ELSE CallExtractor(exs[tid], as_any(w), c)

\* variant: the converter lookup is skipped
extract_and_convert_unconverted(exs, cvs, w, c) ==
    extract_dynamic(exs, w, c)

\* variant: the converter closure is looked up first and also runs on a failed extraction
extract_and_convert_converting_errors(exs, cvs, w, c) ==
    LET tid == type_id(w)
        extracted == extract_dynamic(exs, w, c)
    IN IF tid \in DOMAIN cvs
       THEN IF extracted.ok THEN CallConverter(cvs[tid], extracted.val)
            ELSE Err(OutputDowncastFailed(cvs[tid].E))
       ELSE extracted

\* ViewRegistry::extract_and_convert::<B>
extract_and_convert(exs, cvs, w, c) ==
    LET tid == type_id(w)
        extracted == extract_dynamic(exs, w, c)
    IN IF ~extracted.ok THEN extracted
       ELSE IF tid \in DOMAIN cvs
            THEN CallConverter(cvs[tid], extracted.val)
            ELSE extracted

\* variant: the backend serves only the first render context created
MockBackend_extract_dynamic_ctx_bound(be, w, c) ==
    LET converted == extract_and_convert(be.registry.extractors,
                                         be.registry.converters, w, c)
    IN IF ~converted.ok THEN converted
       ELSE IF converted.val.ty # "MockDynamicChild" \/ c.instance # 1
            THEN Err(OutputDowncastFailed("MockDynamicChild"))
            ELSE Ok(converted.val.v)

\* MockBackend::extract_dynamic
MockBackend_extract_dynamic(be, w, c) ==
    LET converted == extract_and_convert(be.registry.extractors,
                                         be.registry.converters, w, c)
    IN IF ~converted.ok THEN converted
       ELSE IF converted.val.ty # "MockDynamicChild"
            THEN Err(OutputDowncastFailed("MockDynamicChild"))
            ELSE Ok(converted.val.v)

-----------------------------------------------------------------------------
(* Inputs *)

Backends == {"MockBackend", "TestBackend", "UserBackend"}

ViewTypes == {"Text", "ButtonView", "Spacer", "VStackDyn", "HStackDyn", "UserView"}

\* register::<V, B>() calls the application may make (B: ViewExtractor<V>)
RegisterCalls ==
    {c \in [V : {"Text", "ButtonView", "VStackDyn", "UserView"}, B : Backends] :
        c.V \in Implements(c.B)}

\* register_converter::<V, E, MockDynamicChild, _>(MockDynamicChild::f) calls;
\* the variant constructor f fixes the extracted type E it accepts
ConverterCalls ==
    {[V |-> "Text", E |-> "MockText", f |-> "Text"],
     [V |-> "Text", E |-> "MockButton", f |-> "Button"],
     [V |-> "ButtonView", E |-> "MockButton", f |-> "Button"],
     [V |-> "VStackDyn", E |-> "MockVStack", f |-> "VStack"],
     [V |-> "VStackDyn", E |-> "MockText", f |-> "Text"],
     [V |-> "UserView", E |-> "MockText", f |-> "Text"]}

TextA == Text_new("A")
TextB == Text_color(Text_font_size(Text_new("B"), 24), "RED")
ButtonA == ButtonView_of("A", 1)
SpacerA == Spacer_min_size(10)
UserSelf == UserView_of(TextA, "self")
UserLabel == UserView_of(TextB, "label")
HStackB == Stack_child(HStack_dynamic, TextB)

\* the view trees the application builds
ViewPool ==
    {TextA, TextB, ButtonA, SpacerA, UserSelf, UserLabel,
     VStack_dynamic,
     Stack_spacing(Stack_child(Stack_child(VStack_dynamic, TextA), ButtonA), 8),
     Stack_child(Stack_child(VStack_dynamic, TextA), UserSelf),
     HStackB,
     Stack_child(Stack_child(VStack_dynamic, HStackB), SpacerA),
     Stack_child(VStack_dynamic, Stack_child(HStack_dynamic, UserSelf))}

Contexts == {RenderContext_new(1), RenderContext_new(2)}

\* no interactive component, shared model or container builder is in use
AppIdle ==
    /\ widget = [kind |-> "none"]
    /\ shared_model = [kind |-> "none"]
    /\ mutex = 0
    /\ w_pc = <<>>
    /\ w_i = <<>>
    /\ w_local = <<>>
    /\ h_calls = <<>>

-----------------------------------------------------------------------------
(* The registry under test and the application's calls on it *)

Init ==
    /\ extractors = HashMap_new
    /\ converters = HashMap_new
    /\ backend = MockBackend_new
    /\ view = TextA
    /\ ctx = RenderContext_new(1)
    /\ op = [name |-> "new"]
    /\ result = NoResult
    /\ h_registered = {}
    /\ h_lastB = HashMap_new
    /\ h_replaced = {}
    /\ h_ordered = TRUE
    /\ h_used = FALSE
    /\ nregs = 0
    /\ pc = [t \in 1..NThreads |-> "idle"]
    /\ t_local = [t \in 1..NThreads |-> NoResult]
    /\ t_result = [t \in 1..NThreads |-> NoResult]
    /\ backend2 = MockBackend_new
    /\ prev = NoCall
    /\ stack = <<>>
    /\ visited = <<>>
    /\ walk_result = NoResult
    /\ AppIdle

\* variant: the closure is stored under the backend's type id
register_keyed_by_B(V, B) ==
    /\ nregs < MaxRegs
    /\ extractors' = HashMap_insert(extractors, TypeId_of(B), ExtractorClosure(V, B))
    /\ nregs' = nregs + 1
    /\ op' = [name |-> "register", V |-> V, B |-> B]
    /\ result' = NoResult
    /\ h_registered' = h_registered \cup {V}
    /\ h_lastB' = HashMap_insert(h_lastB, V, B)
    /\ h_replaced' = IF V \in h_registered /\ h_lastB[V] # B
                     THEN h_replaced \cup {V} ELSE h_replaced
    /\ UNCHANGED <<converters, backend, view, ctx, h_ordered, h_used, threadVars, dynVars, walkVars, appVars>>

\* variant: an existing entry is kept (entry().or_insert) instead of overwritten
register_keep_existing(V, B) ==
    /\ nregs < MaxRegs
    /\ extractors' = IF TypeId_of(V) \in DOMAIN extractors
                     THEN extractors
                     ELSE HashMap_insert(extractors, TypeId_of(V), ExtractorClosure(V, B))
    /\ nregs' = nregs + 1
    /\ op' = [name |-> "register", V |-> V, B |-> B]
    /\ result' = NoResult
    /\ h_registered' = h_registered \cup {V}
    /\ h_lastB' = HashMap_insert(h_lastB, V, B)
    /\ h_replaced' = IF V \in h_registered /\ h_lastB[V] # B
                     THEN h_replaced \cup {V} ELSE h_replaced
    /\ UNCHANGED <<converters, backend, view, ctx, h_ordered, h_used, threadVars, dynVars, walkVars, appVars>>

\* ViewRegistry::register::<V, B>
register(V, B) ==
    /\ nregs < MaxRegs
    /\ extractors' = HashMap_insert(extractors, TypeId_of(V), ExtractorClosure(V, B))
    /\ nregs' = nregs + 1
    /\ op' = [name |-> "register", V |-> V, B |-> B]
    /\ result' = NoResult
    /\ h_registered' = h_registered \cup {V}
    /\ h_lastB' = HashMap_insert(h_lastB, V, B)
    /\ h_replaced' = IF V \in h_registered /\ h_lastB[V] # B
                     THEN h_replaced \cup {V} ELSE h_replaced
    /\ UNCHANGED <<converters, backend, view, ctx, h_ordered, h_used, threadVars, dynVars, walkVars, appVars>>

\* variant: the closure is stored under the extracted type's id
register_converter_keyed_by_E(V, E, f) ==
    /\ nregs < MaxRegs
    /\ converters' = HashMap_insert(converters, TypeId_of(E), ConverterClosure(E, f))
    /\ nregs' = nregs + 1
    /\ op' = [name |-> "register_converter", V |-> V, E |-> E, f |-> f]
    /\ result' = NoResult
    /\ h_ordered' = (h_ordered /\ V \in h_registered)
    /\ UNCHANGED <<extractors, backend, view, ctx, h_registered, h_lastB,
                   h_replaced, h_used, threadVars, dynVars, walkVars, appVars>>

\* ViewRegistry::register_converter::<V, E, C, F>
register_converter(V, E, f) ==
    /\ nregs < MaxRegs
    /\ converters' = HashMap_insert(converters, TypeId_of(V), ConverterClosure(E, f))
    /\ nregs' = nregs + 1
    /\ op' = [name |-> "register_converter", V |-> V, E |-> E, f |-> f]
    /\ result' = NoResult
    /\ h_ordered' = (h_ordered /\ V \in h_registered)
    /\ UNCHANGED <<extractors, backend, view, ctx, h_registered, h_lastB,
                   h_replaced, h_used, threadVars, dynVars, walkVars, appVars>>

\* the application builds another view tree
BuildView(w) ==
    /\ view' = w
    /\ op' = [name |-> "build"]
    /\ result' = NoResult
    /\ UNCHANGED <<extractors, converters, backend, ctx, historyVars, h_used, nregs,
                   threadVars, dynVars, walkVars, appVars>>

\* the application creates another render context
NewRenderContext(c) ==
    /\ ctx' = c
    /\ op' = [name |-> "RenderContext::new"]
    /\ result' = NoResult
    /\ UNCHANGED <<extractors, converters, backend, view, historyVars, h_used, nregs,
                   threadVars, dynVars, walkVars, appVars>>

\* registry.is_registered::<V>()
RegistryIsRegistered(V) ==
    /\ op' = [name |-> "is_registered", V |-> V]
    /\ result' = Ok(Box("bool", [flag |-> is_registered(extractors, V)]))
    /\ h_used' = TRUE
    /\ UNCHANGED <<extractors, converters, backend, view, ctx, historyVars, nregs,
                   threadVars, dynVars, walkVars, appVars>>

\* registry.len()
RegistryLen ==
    /\ op' = [name |-> "len"]
    /\ result' = Ok(Box("usize", [n |-> len(extractors)]))
    /\ h_used' = TRUE
    /\ UNCHANGED <<extractors, converters, backend, view, ctx, historyVars, nregs,
                   threadVars, dynVars, walkVars, appVars>>

\* registry.is_empty()
RegistryIsEmpty ==
    /\ op' = [name |-> "is_empty"]
    /\ result' = Ok(Box("bool", [flag |-> is_empty(extractors)]))
    /\ h_used' = TRUE
    /\ UNCHANGED <<extractors, converters, backend, view, ctx, historyVars, nregs,
                   threadVars, dynVars, walkVars, appVars>>

\* variant: extract_dynamic also runs the registered converter
ExtractDynamic_converting(B) ==
    /\ op' = [name |-> "extract_dynamic", B |-> B]
    /\ result' = extract_and_convert(extractors, converters, view, ctx)
    /\ h_used' = TRUE
    /\ UNCHANGED <<extractors, converters, backend, view, ctx, historyVars, nregs,
                   threadVars, dynVars, walkVars, appVars>>

\* variant: a lookup miss registers the type with B on the fly
ExtractDynamic_autoregister(B) ==
    /\ op' = [name |-> "extract_dynamic", B |-> B]
    /\ result' = extract_dynamic(extractors, view, ctx)
    /\ extractors' = IF type_id(view) \in DOMAIN extractors
                     THEN extractors
                     ELSE HashMap_insert(extractors, type_id(view),
                                         ExtractorClosure(type_id(view), B))
    /\ h_used' = TRUE
    /\ UNCHANGED <<converters, backend, view, ctx, historyVars, nregs, threadVars, dynVars, walkVars, appVars>>

\* variant: a dynamic container hands its children to the registry it was dispatched through
ExtractDynamic_children_by_dispatcher(B) ==
    /\ op' = [name |-> "extract_dynamic", B |-> B]
    /\ result' =
          IF /\ view.ty \in {"VStackDyn", "HStackDyn"}
             /\ type_id(view) \in DOMAIN extractors
             /\ extractors[type_id(view)].B = "MockBackend"
          THEN LET dispatcher == [registry |-> [extractors |-> extractors,
                                                converters |-> converters]]
                   extracted_children == CollectChildren(dispatcher, view.v.children, ctx)
               IN IF ~extracted_children.ok THEN extracted_children
                  ELSE Ok(Box(OutputType("MockBackend", view.ty),
                              [children |-> extracted_children.val,
                               alignment |-> view.v.alignment,
                               spacing |-> view.v.spacing]))
          ELSE extract_dynamic(extractors, view, ctx)
    /\ h_used' = TRUE
    /\ UNCHANGED <<extractors, converters, backend, view, ctx, historyVars, nregs,
                   threadVars, dynVars, walkVars, appVars>>

\* registry.extract_dynamic::<B>(&view, &ctx)
ExtractDynamic(B) ==
    /\ op' = [name |-> "extract_dynamic", B |-> B]
    /\ result' = extract_dynamic(extractors, view, ctx)
    /\ h_used' = TRUE
    /\ UNCHANGED <<extractors, converters, backend, view, ctx, historyVars, nregs,
                   threadVars, dynVars, walkVars, appVars>>

\* variant: the converter is taken out of the map (remove) instead of borrowed (get)
ExtractAndConvert_take(B) ==
    /\ op' = [name |-> "extract_and_convert", B |-> B]
    /\ result' = extract_and_convert(extractors, converters, view, ctx)
    /\ converters' = [k \in (DOMAIN converters) \ {type_id(view)} |-> converters[k]]
    /\ h_used' = TRUE
    /\ UNCHANGED <<extractors, backend, view, ctx, historyVars, nregs, threadVars, dynVars, walkVars, appVars>>

\* registry.extract_and_convert::<B>(&view, &ctx)
ExtractAndConvert(B) ==
    /\ op' = [name |-> "extract_and_convert", B |-> B]
    /\ result' = extract_and_convert(extractors, converters, view, ctx)
    /\ h_used' = TRUE
    /\ UNCHANGED <<extractors, converters, backend, view, ctx, historyVars, nregs,
                   threadVars, dynVars, walkVars, appVars>>

\* backend.extract_dynamic(&view, &ctx)
MockExtractDynamic ==
    /\ op' = [name |-> "MockBackend::extract_dynamic"]
    /\ result' = MockBackend_extract_dynamic(backend, view, ctx)
    /\ UNCHANGED <<extractors, converters, backend, view, ctx, historyVars, h_used,
                   nregs, threadVars, dynVars, walkVars, appVars>>

\* B::extract(&view, &ctx), the static path (compiles only when B: ViewExtractor<V>)
StaticExtract(B) ==
    /\ view.ty \in Implements(B)
    /\ op' = [name |-> "extract", B |-> B]
    /\ result' = extract(B, view, ctx)
    /\ UNCHANGED <<extractors, converters, backend, view, ctx, historyVars, h_used,
                   nregs, threadVars, dynVars, walkVars, appVars>>

Next ==
    \/ \E c \in RegisterCalls : register(c.V, c.B)
    \/ \E c \in ConverterCalls : register_converter(c.V, c.E, c.f)
    \/ \E w \in ViewPool : BuildView(w)
    \/ \E c \in Contexts : NewRenderContext(c)
    \/ \E V \in ViewTypes : RegistryIsRegistered(V)
    \/ RegistryLen
    \/ RegistryIsEmpty
    \/ \E B \in {"MockBackend", "TestBackend"} : ExtractDynamic(B)
    \/ \E B \in {"MockBackend", "TestBackend"} : ExtractAndConvert(B)
    \/ MockExtractDynamic
    \/ \E B \in Backends : StaticExtract(B)

Spec == Init /\ [][Next]_vars

-----------------------------------------------------------------------------
(* Worker threads extracting concurrently from a shared view, context and  *)
(* backend (tests/concurrency.rs, concurrent_view_extraction).  A dynamic   *)
(* extraction is split at each read of the shared registry.                *)

Threads == 1..NThreads

InitThreads ==
    /\ extractors = HashMap_new
    /\ converters = HashMap_new
    /\ backend = MockBackend_new
    /\ view \in ViewPool
    /\ ctx \in Contexts
    /\ op = [name |-> "spawn"]
    /\ result = NoResult
    /\ h_registered = {}
    /\ h_lastB = HashMap_new
    /\ h_replaced = {}
    /\ h_ordered = TRUE
    /\ h_used = FALSE
    /\ nregs = 0
    /\ pc = [t \in Threads |-> "idle"]
    /\ t_local = [t \in Threads |-> NoResult]
    /\ t_result = [t \in Threads |-> NoResult]
    /\ backend2 = MockBackend_new
    /\ prev = NoCall
    /\ stack = <<>>
    /\ visited = <<>>
    /\ walk_result = NoResult
    /\ AppIdle

sharedVars == <<extractors, converters, backend, view, ctx, op, result,
                historyVars, h_used, nregs, dynVars, walkVars, appVars>>

\* a worker begins MockBackend::extract(&view, &ctx)
T_BeginStatic(t) ==
    /\ pc[t] = "idle"
    /\ view.ty \in Implements("MockBackend")
    /\ pc' = [pc EXCEPT ![t] = "static"]
    /\ t_local' = [t_local EXCEPT ![t] = NoResult]
    /\ UNCHANGED <<t_result, sharedVars>>

\* MockBackend::extract runs on the shared view
T_Static(t) ==
    /\ pc[t] = "static"
    /\ t_result' = [t_result EXCEPT ![t] = extract("MockBackend", view, ctx)]
    /\ pc' = [pc EXCEPT ![t] = "done_static"]
    /\ UNCHANGED <<t_local, sharedVars>>

\* a worker begins backend.extract_dynamic(&view, &ctx)
T_BeginDynamic(t) ==
    /\ pc[t] = "idle"
    /\ pc' = [pc EXCEPT ![t] = "dyn_lookup"]
    /\ t_local' = [t_local EXCEPT ![t] = NoResult]
    /\ UNCHANGED <<t_result, sharedVars>>

\* ViewRegistry::extract_dynamic: self.extractors.get(&type_id)
T_Lookup(t) ==
    /\ pc[t] = "dyn_lookup"
    /\ IF type_id(view) \notin DOMAIN backend.registry.extractors
       THEN /\ t_result' = [t_result EXCEPT ![t] = Err(UnregisteredType(type_id(view)))]
            /\ pc' = [pc EXCEPT ![t] = "done_dynamic"]
            /\ UNCHANGED t_local
       ELSE /\ t_local' = [t_local EXCEPT ![t] = Ok(backend.registry.extractors[type_id(view)])]
            /\ pc' = [pc EXCEPT ![t] = "dyn_call"]
            /\ UNCHANGED t_result
    /\ UNCHANGED sharedVars

\* ViewRegistry::extract_dynamic: extractor(view.as_any(), ctx)
T_CallExtractor(t) ==
    /\ pc[t] = "dyn_call"
    /\ LET extracted == CallExtractor(t_local[t].val, as_any(view), ctx)
       IN IF ~extracted.ok
          THEN /\ t_result' = [t_result EXCEPT ![t] = extracted]
               /\ pc' = [pc EXCEPT ![t] = "done_dynamic"]
               /\ UNCHANGED t_local
          ELSE /\ t_local' = [t_local EXCEPT ![t] = extracted]
               /\ pc' = [pc EXCEPT ![t] = "dyn_convert"]
               /\ UNCHANGED t_result
    /\ UNCHANGED sharedVars

\* ViewRegistry::extract_and_convert: self.converters.get(&type_id), converter(extracted)
T_Convert(t) ==
    /\ pc[t] = "dyn_convert"
    /\ IF type_id(view) \in DOMAIN backend.registry.converters
       THEN LET converted == CallConverter(backend.registry.converters[type_id(view)],
                                           t_local[t].val)
            IN IF ~converted.ok
               THEN /\ t_result' = [t_result EXCEPT ![t] = converted]
                    /\ pc' = [pc EXCEPT ![t] = "done_dynamic"]
                    /\ UNCHANGED t_local
               ELSE /\ t_local' = [t_local EXCEPT ![t] = converted]
                    /\ pc' = [pc EXCEPT ![t] = "dyn_downcast"]
                    /\ UNCHANGED t_result
       ELSE /\ pc' = [pc EXCEPT ![t] = "dyn_downcast"]
            /\ UNCHANGED <<t_local, t_result>>
    /\ UNCHANGED sharedVars

\* variant: a result another worker has already returned is reused, without
\* regard to which call produced it
T_Downcast_reuse_result(t) ==
    /\ pc[t] = "dyn_downcast"
    /\ t_result' = [t_result EXCEPT ![t] =
            IF \E u \in Threads : pc[u] \in {"done_static", "done_dynamic"}
            THEN t_result[CHOOSE u \in Threads : pc[u] \in {"done_static", "done_dynamic"}]
            ELSE IF t_local[t].val.ty # "MockDynamicChild"
                 THEN Err(OutputDowncastFailed("MockDynamicChild"))
                 ELSE Ok(t_local[t].val.v)]
    /\ pc' = [pc EXCEPT ![t] = "done_dynamic"]
    /\ UNCHANGED <<t_local, sharedVars>>

\* MockBackend::extract_dynamic: converted.downcast::<MockDynamicChild>()
T_Downcast(t) ==
    /\ pc[t] = "dyn_downcast"
    /\ t_result' = [t_result EXCEPT ![t] =
            IF t_local[t].val.ty # "MockDynamicChild"
            THEN Err(OutputDowncastFailed("MockDynamicChild"))
            ELSE Ok(t_local[t].val.v)]
    /\ pc' = [pc EXCEPT ![t] = "done_dynamic"]
    /\ UNCHANGED <<t_local, sharedVars>>

\* the worker records the result and goes on to its next extraction
T_Next(t) ==
    /\ pc[t] \in {"done_static", "done_dynamic"}
    /\ pc' = [pc EXCEPT ![t] = "idle"]
    /\ UNCHANGED <<t_local, t_result, sharedVars>>

NextThreads ==
    \E t \in Threads :
        \/ T_BeginStatic(t)
        \/ T_Static(t)
        \/ T_BeginDynamic(t)
        \/ T_Lookup(t)
        \/ T_CallExtractor(t)
        \/ T_Convert(t)
        \/ T_Downcast(t)
        \/ T_Next(t)

SpecThreads == InitThreads /\ [][NextThreads]_vars

-----------------------------------------------------------------------------
(* Properties of the registry *)

RegistryExtractOps == {"extract_dynamic", "extract_and_convert"}

\* the view types MockBackend::new passes to register
MockRegisteredTypes == {"Text", "ButtonView", "Spacer", "VStackDyn", "HStackDyn"}

\* C1: extracting a view whose concrete type was never passed to register
\* returns Err(UnregisteredType) carrying the view's runtime type id, from
\* ViewRegistry::extract_dynamic, ViewRegistry::extract_and_convert and
\* MockBackend::extract_dynamic alike; it never returns Ok.
C1_UnregisteredTypeFails ==
    /\ (op.name \in RegistryExtractOps /\ view.ty \notin h_registered)
          => result = Err(UnregisteredType(view.ty))
    /\ (op.name = "MockBackend::extract_dynamic" /\ view.ty \notin MockRegisteredTypes)
          => result = Err(UnregisteredType(view.ty))

\* an unregistered view was extracted from a registry that holds other types
C1_Witness ==
    /\ op.name = "extract_dynamic"
    /\ h_registered # {}
    /\ view.ty \notin h_registered
    /\ ~result.ok

\* C2 (as claimed): after any sequence of register and register_converter
\* calls, every type id with a converter also has an extractor.
C2_ConverterImpliesExtractor == DOMAIN converters \subseteq DOMAIN extractors

\* C2 (amended): when every register_converter::<V> call was made after a
\* register::<V, _> call, every type id with a converter also has an extractor.
C2_OrderedConverterImpliesExtractor ==
    h_ordered => DOMAIN converters \subseteq DOMAIN extractors

\* a converter was registered after its extractor
C2_Witness ==
    /\ h_ordered
    /\ op.name = "register_converter"
    /\ op.V \in DOMAIN converters

\* each converter's extracted type is the output type of the extractor most
\* recently registered for the same view type
ConsistentRegistration ==
    \A V \in (DOMAIN converters) \cap h_registered :
        converters[V].E = OutputType(h_lastB[V], V)

IsDowncastError(r) ==
    ~r.ok /\ r.err.kind \in {"DowncastFailed", "OutputDowncastFailed"}

\* C3: with a consistent registration (each converter expects the output type
\* of its view type's extractor) and a view whose as_any returns the view
\* itself, extract_dynamic and extract_and_convert never return DowncastFailed
\* or OutputDowncastFailed.
C3_NoDowncastErrors ==
    (/\ op.name \in RegistryExtractOps
     /\ ConsistentRegistration
     /\ view.as_any_impl = "self")
        => ~IsDowncastError(result)

\* a registered view with a matching converter went through extract_and_convert
C3_Witness ==
    /\ op.name = "extract_and_convert"
    /\ ConsistentRegistration
    /\ view.as_any_impl = "self"
    /\ view.ty \in h_registered
    /\ view.ty \in DOMAIN converters
    /\ result.ok

\* C4: for a view of a registered type, extract_and_convert returns the
\* registered converter applied to extract_dynamic's output when a converter
\* is registered for the type id, and extract_dynamic's result unchanged
\* otherwise.
C4_ConvertOnlyIfRegistered ==
    (op.name = "extract_and_convert" /\ view.ty \in h_registered) =>
        LET raw == extract_dynamic(extractors, view, ctx)
        IN IF raw.ok /\ view.ty \in DOMAIN converters
           THEN result = CallConverter(converters[view.ty], raw.val)
           ELSE result = raw

\* extract_and_convert applied a converter
C4_Witness ==
    /\ op.name = "extract_and_convert"
    /\ view.ty \in h_registered
    /\ view.ty \in DOMAIN converters
    /\ result.ok
    /\ result.val.ty = "MockDynamicChild"

\* C5: for a view of a type registered with register::<V, B> (its as_any
\* returning the view, as View::as_any documents), extract_dynamic returns
\* the boxed raw output of the static B::extract, or its error; a converter
\* registered for V is not applied.
C5_DynamicEqualsStatic ==
    (/\ op.name = "extract_dynamic"
     /\ view.ty \in h_registered
     /\ view.as_any_impl = "self") =>
        LET B == h_lastB[view.ty]
            static == extract(B, view, ctx)
        IN IF static.ok
           THEN result = Ok(Box(OutputType(B, view.ty), static.val))
           ELSE result = static

\* extract_dynamic ran on a view whose type also has a converter
C5_Witness ==
    /\ op.name = "extract_dynamic"
    /\ view.ty \in h_registered
    /\ view.ty \in DOMAIN converters
    /\ view.as_any_impl = "self"
    /\ result.ok

\* C6: is_registered::<V>() is false while register::<V, _> has never been
\* called, true in every state after such a call, and registering another
\* type W does not change it.
C6_IsRegisteredIffRegistered ==
    /\ [](/\ \A V \in ViewTypes : is_registered(extractors, V) <=> V \in h_registered
          /\ op.name = "is_registered"
                => result.val.v.flag = (op.V \in h_registered))
    /\ [][op'.name = "register" =>
            \A V \in ViewTypes \ {op'.V} :
                is_registered(extractors', V) <=> is_registered(extractors, V)]_vars

\* is_registered answered true for one type and the registry lacks another
C6_Witness ==
    /\ op.name = "is_registered"
    /\ result.val.v.flag
    /\ \E V \in ViewTypes : ~is_registered(extractors, V)

\* C7: registering an already registered V replaces its extractor and keeps
\* len(): extract_dynamic on a V view uses the extractor of the most recent
\* register::<V, B>, whatever backend type parameter extract_dynamic is given,
\* and len() is the number of distinct types passed to register.
C7_ReRegisterOverwrites ==
    /\ len(extractors) = Cardinality(h_registered)
    /\ op.name = "len" => result.val.v.n = Cardinality(h_registered)
    /\ (op.name = "extract_dynamic" /\ view.ty \in h_registered) =>
          result = CallExtractor(ExtractorClosure(view.ty, h_lastB[view.ty]),
                                 as_any(view), ctx)

\* a view type re-registered with another backend was extracted, with a
\* backend type parameter other than the registered one
C7_Witness ==
    /\ op.name = "extract_dynamic"
    /\ view.ty \in h_replaced
    /\ op.B # h_lastB[view.ty]
    /\ result.ok
    /\ len(extractors) = 1

\* C8 (as claimed): once an extraction or lookup has been performed on a
\* registry, no later operation changes its extractors or converters map.
C8_FrozenAfterFirstUse ==
    [][h_used => (extractors' = extractors /\ converters' = converters)]_vars

\* C8 (amended): register and register_converter stay callable after
\* extractions and lookups; they are the only operations that change a
\* registry's maps, no operation removes an entry, and the registry owned by
\* a MockBackend never changes after new().
C8_OnlyRegistrationChangesMaps ==
    [][/\ (extractors' # extractors \/ converters' # converters)
            => op'.name \in {"register", "register_converter"}
       /\ DOMAIN extractors \subseteq DOMAIN extractors'
       /\ DOMAIN converters \subseteq DOMAIN converters'
       /\ backend' = backend]_vars

\* a registration was made on a registry already used for extraction or lookup
C8_Witness ==
    /\ h_used
    /\ op.name \in {"register", "register_converter"}

\* C10: extract_dynamic, extract_and_convert, is_registered, len and is_empty
\* leave both registry maps unchanged, and every extraction, static or
\* dynamic, successful or failing, leaves the view tree and the render
\* context unchanged.
C10_ReadOnlyOperations ==
    [][/\ op'.name \in {"extract_dynamic", "extract_and_convert",
                        "is_registered", "len", "is_empty"}
            => (extractors' = extractors /\ converters' = converters)
       /\ op'.name \in {"extract_dynamic", "extract_and_convert",
                        "MockBackend::extract_dynamic", "extract"}
            => (view' = view /\ ctx' = ctx /\ backend' = backend)]_vars

\* a failing extract_and_convert on a populated registry
C10_Witness ==
    /\ op.name = "extract_and_convert"
    /\ ~result.ok
    /\ DOMAIN extractors # {}
    /\ DOMAIN converters # {}

\* the converter registered for the view's type expects another type than the
\* registered extractor's output
MismatchedConverter ==
    /\ view.ty \in DOMAIN extractors
    /\ view.ty \in DOMAIN converters
    /\ converters[view.ty].E # OutputType(extractors[view.ty].B, view.ty)

\* the boxed raw output of the extractor registered for the view's type
RawOutput ==
    LET B == extractors[view.ty].B
        extracted == extract(B, view, ctx)
    IN IF extracted.ok THEN Ok(Box(OutputType(B, view.ty), extracted.val))
       ELSE extracted

\* C22 (as claimed): if the converter registered for V expects an extracted
\* type E different from the output type of V's registered extractor, then
\* extract_and_convert on a V view returns Err(OutputDowncastFailed) naming
\* E, and extract_dynamic on the same view returns Ok with the raw output.
C22_MismatchGivesOutputDowncastFailed ==
    /\ (op.name = "extract_and_convert" /\ MismatchedConverter) =>
          /\ result = Err(OutputDowncastFailed(converters[view.ty].E))
          /\ extract_dynamic(extractors, view, ctx).ok
          /\ extract_dynamic(extractors, view, ctx) = RawOutput
    /\ (op.name = "extract_dynamic" /\ MismatchedConverter) =>
          result.ok /\ result = RawOutput

\* C22 (amended): under the same mismatch, on a V view that the registered
\* extractor extracts successfully, extract_and_convert returns
\* Err(OutputDowncastFailed) naming E and extract_dynamic returns Ok with
\* the raw output; on a V view whose extraction fails (a dynamic container
\* with a child of an unregistered type) both return the extraction error.
C22_MismatchAfterSuccessfulExtraction ==
    LET raw == extract_dynamic(extractors, view, ctx)
    IN /\ (op.name = "extract_and_convert" /\ MismatchedConverter) =>
             IF raw.ok
             THEN /\ result = Err(OutputDowncastFailed(converters[view.ty].E))
                  /\ raw = RawOutput
             ELSE result = raw
       /\ (op.name = "extract_dynamic" /\ MismatchedConverter) =>
             /\ result = raw
             /\ raw.ok => raw = RawOutput

\* a Text registered with TestBackend (output String) and a converter that
\* expects MockText: extract_and_convert reported the failed output downcast
C22_Witness ==
    /\ op.name = "extract_and_convert"
    /\ MismatchedConverter
    /\ view.ty = "Text"
    /\ extractors[view.ty].B = "TestBackend"
    /\ extract_dynamic(extractors, view, ctx).ok
    /\ result = Err(OutputDowncastFailed("MockText"))

-----------------------------------------------------------------------------
(* Properties of concurrent extraction *)

\* C9: in every interleaving of the workers, a finished extraction returned
\* what the same call returns when executed alone, so all finished calls of
\* one kind on the shared view hold equal results.
C9_ConcurrentEqualsSequential ==
    /\ \A t \in Threads :
          /\ pc[t] = "done_dynamic"
                => t_result[t] = MockBackend_extract_dynamic(backend, view, ctx)
          /\ pc[t] = "done_static"
                => t_result[t] = extract("MockBackend", view, ctx)
    /\ \A t, u \in Threads : pc[t] = pc[u] /\ pc[t] \in {"done_static", "done_dynamic"}
                => t_result[t] = t_result[u]

\* one worker finished a dynamic extraction of a container while another is
\* in the middle of its own
C9_Witness ==
    \E t, u \in Threads :
        /\ pc[t] = "done_dynamic"
        /\ t_result[t].ok
        /\ view.ty = "VStackDyn"
        /\ pc[u] \in {"dyn_call", "dyn_convert", "dyn_downcast"}


-----------------------------------------------------------------------------
(* Dynamic containers: a view tree built with dynamic().children(..), and  *)
(* successive extractions of it through the static path and the backend    *)

\* children held by one dynamic container
MaxChildren == 3

\* VStack::children / HStack::children: replace the container's children
Stack_children(s, cs) == [s EXCEPT !.v.children = cs]

OptionChild == Option_some(TextA)
DeepOk == Stack_spacing(Stack_child(Stack_child(VStack_dynamic, HStackB), SpacerA), 4)
DeepFail == Stack_child(VStack_dynamic, Stack_child(HStack_dynamic, UserSelf))

\* the boxed views the application puts into a container: leaves of registered
\* and unregistered types, and nested containers
ChildPool == {TextA, ButtonA, UserSelf, OptionChild, DeepOk, DeepFail}

\* the child lists of length n
ChildLists(n) == [1..n -> ChildPool]

\* dynamic() followed by the spacing / alignment builders
Shells ==
    {Stack_spacing(VStack_dynamic, 12),
     Stack_alignment(Stack_spacing(HStack_dynamic, 8), "Center")}

\* the leaves handed to the backend on their own
DynLeaves == {TextA, TextB, ButtonA, SpacerA}

InitDyn ==
    /\ extractors = HashMap_new
    /\ converters = HashMap_new
    /\ backend = MockBackend_new
    /\ \/ view \in DynLeaves
       \/ \E s \in Shells, n \in 0..MaxChildren :
             \E cs \in ChildLists(n) : view = Stack_children(s, cs)
    /\ ctx = RenderContext_new(1)
    /\ op = [name |-> "new"]
    /\ result = NoResult
    /\ h_registered = {}
    /\ h_lastB = HashMap_new
    /\ h_replaced = {}
    /\ h_ordered = TRUE
    /\ h_used = FALSE
    /\ nregs = 0
    /\ pc = [t \in Threads |-> "idle"]
    /\ t_local = [t \in Threads |-> NoResult]
    /\ t_result = [t \in Threads |-> NoResult]
    /\ backend2 = MockBackend_new
    /\ prev = NoCall
    /\ stack = <<>>
    /\ visited = <<>>
    /\ walk_result = NoResult
    /\ AppIdle

\* MockBackend::extract(&view, &c); the previous call is remembered
D_Extract(c) ==
    /\ Extractable("MockBackend", view)
    /\ prev' = [op |-> op, ctx |-> ctx, result |-> result]
    /\ ctx' = c
    /\ op' = [name |-> "extract", B |-> "MockBackend"]
    /\ result' = extract("MockBackend", view, c)
    /\ UNCHANGED <<extractors, converters, backend, view, historyVars, h_used, nregs,
                   threadVars, backend2, walkVars, appVars>>

\* backend.extract_dynamic(&view, &c); the previous call is remembered
D_ExtractDynamic(c) ==
    /\ prev' = [op |-> op, ctx |-> ctx, result |-> result]
    /\ ctx' = c
    /\ op' = [name |-> "MockBackend::extract_dynamic"]
    /\ result' = MockBackend_extract_dynamic(backend, view, c)
    /\ UNCHANGED <<extractors, converters, backend, view, historyVars, h_used, nregs,
                   threadVars, backend2, walkVars, appVars>>

NextDyn ==
    \/ \E c \in Contexts : D_Extract(c)
    \/ \E c \in Contexts : D_ExtractDynamic(c)

SpecDyn == InitDyn /\ [][NextDyn]_vars

\* the MockDynamicChild variant that wraps the output of each registered view type
VariantOf(V) ==
    CASE V = "Text" -> "Text"
      [] V = "ButtonView" -> "Button"
      [] V = "Spacer" -> "Spacer"
      [] V = "VStackDyn" -> "VStack"
      [] V = "HStackDyn" -> "HStack"

DynamicContainers == {"VStackDyn", "HStackDyn"}

ExtractionOps == {"extract", "MockBackend::extract_dynamic"}

\* the MockVStack / MockHStack a call on a container returned: the static
\* path returns it directly, the backend inside the VStack / HStack variant
ContainerOutput == IF op.name = "extract" THEN result.val ELSE result.val.payload

\* what MockDynamicChild::extract_from_view_with_backend returns for one
\* boxed child, given the backend the container creates
ChildExtraction(child, c) == MockBackend_extract_dynamic(MockBackend_new, child, c)

RECURSIVE AllRegistered(_)
\* the view's type is registered by MockBackend::new, and so are the types of
\* the children it holds, at every level
AllRegistered(w) ==
    /\ w.ty \in MockRegisteredTypes
    /\ w.ty \in DynamicContainers =>
          \A i \in 1..Len(w.v.children) : AllRegistered(w.v.children[i])

RECURSIVE NestedShape(_, _, _)
\* `out` is the container output for the dynamic container w: wherever w
\* holds a dynamic container, `out` holds at the same position the matching
\* VStack / HStack variant, whose children are the extractions of the nested
\* container's children in the same order; and so on below it
NestedShape(w, out, c) ==
    /\ Len(out.children) = Len(w.v.children)
    /\ \A i \in 1..Len(w.v.children) :
          LET nested == w.v.children[i]
              nested_out == out.children[i]
          IN nested.ty \in DynamicContainers =>
                /\ nested_out.variant = VariantOf(nested.ty)
                /\ Len(nested_out.payload.children) = Len(nested.v.children)
                /\ \A j \in 1..Len(nested.v.children) :
                      Ok(nested_out.payload.children[j])
                          = ChildExtraction(nested.v.children[j], c)
                /\ NestedShape(nested, nested_out.payload, c)

\* a dynamic container among the children of w
HoldsContainer(w) ==
    \E i \in 1..Len(w.v.children) : w.v.children[i].ty \in DynamicContainers

\* C13: a dynamic container that is a child of a dynamic container is
\* extracted recursively: the parent's output holds, at the child's position,
\* a VStack or HStack variant whose own children are the extractions of the
\* nested container's children in the same order, at every nesting depth.
C13_NestedContainersRecurse ==
    (/\ op.name \in ExtractionOps
     /\ view.ty \in DynamicContainers
     /\ HoldsContainer(view)
     /\ AllRegistered(view)) =>
        result.ok /\ NestedShape(view, ContainerOutput, ctx)

\* a container holding a container that itself holds a container (three
\* levels) was extracted through the backend
C13_Witness ==
    /\ op.name = "MockBackend::extract_dynamic"
    /\ view.ty = "HStackDyn"
    /\ Len(view.v.children) >= 2
    /\ view.v.children[2] = DeepOk
    /\ AllRegistered(view)
    /\ result.ok
    /\ result.val.payload.children[2].variant = "VStack"
    /\ result.val.payload.children[2].payload.children[1].variant = "HStack"


RECURSIVE FirstUnregistered(_)
RECURSIVE FirstUnregisteredIn(_)
\* the type of the first view, in depth-first insertion order, whose type
\* MockBackend::new does not register: <<ty>>, or <<>> when there is none
FirstUnregistered(w) ==
    IF w.ty \notin MockRegisteredTypes THEN <<w.ty>>
    ELSE IF w.ty \in DynamicContainers THEN FirstUnregisteredIn(w.v.children)
    ELSE <<>>

FirstUnregisteredIn(children) ==
    IF children = <<>> THEN <<>>
    ELSE IF FirstUnregistered(Head(children)) # <<>>
         THEN FirstUnregistered(Head(children))
         ELSE FirstUnregisteredIn(Tail(children))

\* positions of the children of w that fail to extract
FailingChildren(w, c) ==
    {i \in 1..Len(w.v.children) : ~ChildExtraction(w.v.children[i], c).ok}

Min(S) == CHOOSE i \in S : \A j \in S : i <= j

\* C14: if a child of a dynamic VStack or HStack fails to extract, at any
\* nesting depth, extracting the container returns Err with the error of the
\* first failing child in insertion order, unchanged; it never returns Ok
\* with that child skipped or with a partial child list.
C14_FirstChildErrorPropagates ==
    (/\ op.name \in ExtractionOps
     /\ view.ty \in DynamicContainers
     /\ \/ FailingChildren(view, ctx) # {}
        \/ FirstUnregisteredIn(view.v.children) # <<>>) =>
        /\ ~result.ok
        /\ FailingChildren(view, ctx) # {}
        /\ result = ChildExtraction(view.v.children[Min(FailingChildren(view, ctx))], ctx)
        /\ result = Err(UnregisteredType(FirstUnregisteredIn(view.v.children)[1]))

\* a container with two failing children, the first one failing two levels
\* down and the second for another type, returned the first one's error
C14_Witness ==
    /\ op.name \in ExtractionOps
    /\ view.ty \in DynamicContainers
    /\ Cardinality(FailingChildren(view, ctx)) >= 2
    /\ view.v.children[Min(FailingChildren(view, ctx))] = DeepFail
    /\ OptionChild \in {view.v.children[i] : i \in FailingChildren(view, ctx)}
    /\ Min(FailingChildren(view, ctx)) > 1
    /\ result = Err(UnregisteredType("UserView"))


-----------------------------------------------------------------------------
(* Several registries side by side: the registry under test, and the       *)
(* registries owned by two MockBackend instances                           *)

\* the views handed to both backends
IsoViews == {TextA, UserSelf, DeepOk, DeepFail}

InitIso ==
    /\ extractors = HashMap_new
    /\ converters = HashMap_new
    /\ backend = MockBackend_new
    /\ view \in IsoViews
    /\ ctx = RenderContext_new(1)
    /\ op = [name |-> "new"]
    /\ result = NoResult
    /\ h_registered = {}
    /\ h_lastB = HashMap_new
    /\ h_replaced = {}
    /\ h_ordered = TRUE
    /\ h_used = FALSE
    /\ nregs = 0
    /\ pc = [t \in Threads |-> "idle"]
    /\ t_local = [t \in Threads |-> NoResult]
    /\ t_result = [t \in Threads |-> NoResult]
    /\ backend2 = MockBackend_new
    /\ prev = NoCall
    /\ stack = <<>>
    /\ visited = <<>>
    /\ walk_result = NoResult
    /\ AppIdle

\* let another = MockBackend::new()
I_New ==
    /\ backend2' = MockBackend_new
    /\ op' = [name |-> "MockBackend::new"]
    /\ result' = NoResult
    /\ UNCHANGED <<extractors, converters, backend, view, ctx, historyVars, h_used,
                   nregs, threadVars, prev, walkVars, appVars>>

\* let another = MockBackend::default()
I_Default ==
    /\ backend2' = MockBackend_default
    /\ op' = [name |-> "MockBackend::default"]
    /\ result' = NoResult
    /\ UNCHANGED <<extractors, converters, backend, view, ctx, historyVars, h_used,
                   nregs, threadVars, prev, walkVars, appVars>>

\* backend.extract_dynamic(&view, &ctx) on the first (i = 1) or on the other
\* (i = 2) instance; the previous call is remembered
I_ExtractDynamic(i) ==
    /\ prev' = [op |-> op, ctx |-> ctx, result |-> result]
    /\ op' = [name |-> "MockBackend::extract_dynamic", instance |-> i]
    /\ result' = MockBackend_extract_dynamic(IF i = 1 THEN backend ELSE backend2,
                                             view, ctx)
    /\ UNCHANGED <<extractors, converters, backend, view, ctx, historyVars, h_used,
                   nregs, threadVars, backend2, walkVars, appVars>>

NextIso ==
    \/ \E c \in RegisterCalls : register(c.V, c.B)
    \/ \E c \in ConverterCalls : register_converter(c.V, c.E, c.f)
    \/ I_New
    \/ I_Default
    \/ \E i \in {1, 2} : I_ExtractDynamic(i)

SpecIso == InitIso /\ [][NextIso]_vars

\* what a caller can observe of a registry: the registered types, their
\* number, and what it extracts
RegisteredSet(reg) == {V \in ViewTypes : is_registered(reg.extractors, V)}

\* two backend instances answer alike
SameBackends(b1, b2) ==
    /\ RegisteredSet(b1.registry) = RegisteredSet(b2.registry)
    /\ len(b1.registry.extractors) = len(b2.registry.extractors)
    /\ \A w \in ViewPool :
          MockBackend_extract_dynamic(b1, w, ctx) = MockBackend_extract_dynamic(b2, w, ctx)

\* C19: registries are per instance: a register or register_converter call
\* on one ViewRegistry changes nothing on the registries the backends own,
\* creating a backend changes nothing on the registry under test, and two
\* MockBackend instances, from new() or from default(), have the same
\* registered set and return equal extract_dynamic results for the same view.
C19_RegistriesIndependent ==
    /\ [][/\ op'.name \in {"register", "register_converter"} =>
                backend' = backend /\ backend2' = backend2
          /\ op'.name \in {"MockBackend::new", "MockBackend::default"} =>
                extractors' = extractors /\ converters' = converters
                    /\ backend' = backend]_vars
    /\ [](/\ SameBackends(backend, backend2)
          /\ (/\ op.name = "MockBackend::extract_dynamic"
              /\ prev.op.name = "MockBackend::extract_dynamic"
              /\ prev.op.instance # op.instance) => prev.result = result)

\* after registrations on the registry under test, the backend obtained from
\* default() extracted a container that the first backend had just extracted
C19_Witness ==
    /\ nregs > 0
    /\ extractors # backend2.registry.extractors
    /\ op.name = "MockBackend::extract_dynamic"
    /\ op.instance = 2
    /\ prev.op.name = "MockBackend::extract_dynamic"
    /\ prev.op.instance = 1
    /\ view.ty = "VStackDyn"
    /\ result.ok


-----------------------------------------------------------------------------
(* One extraction call followed step by step: every ViewExtractor::extract *)
(* or extract_dynamic call on a node of the view tree is a frame of the    *)
(* call stack; a call returns its output, or its error, to its caller      *)

\* tuple positions that hold something other than the filler element
MaxVaried == 2

\* the components a composite view's extractor calls extract on, in call order
Kids(w) ==
    CASE w.ty = "Option" -> w.v.some
      [] w.ty = "Tuple" -> w.v.elems
      [] w.ty \in {"VStackStatic", "HStackStatic"} -> <<w.v.inner>>
      [] w.ty \in DynamicContainers -> w.v.children
      [] OTHER -> <<>>

\* how the extractor of w calls its components: the dynamic containers go
\* through backend.extract_dynamic, everything else calls Self::extract
KidMode(w) == IF w.ty \in DynamicContainers THEN "dynamic" ELSE "static"

Frame(w, path, mode) ==
    [node |-> w, path |-> path, mode |-> mode, outs |-> <<>>, err |-> <<>>]

\* the backend whose registry serves a dynamic call made at this stack depth:
\* the caller's backend for the outermost call, the MockBackend::new() the
\* enclosing container created for every other
FrameBackend(depth) == IF depth = 1 THEN backend ELSE MockBackend_new

\* the error with which a dynamic call is turned away before the view's
\* extractor runs (<<e>>), or <<>>: registry lookup, then the closure's downcast
Rejection(f, be) ==
    IF f.mode = "static" THEN <<>>
    ELSE LET tid == type_id(f.node)
             exs == be.registry.extractors
         IN IF tid \notin DOMAIN exs THEN <<UnregisteredType(tid)>>
            ELSE IF type_id(as_any(f.node)) # TypeId_of(exs[tid].V)
                 THEN <<DowncastFailed(exs[tid].V, type_id(as_any(f.node)))>>
                 ELSE <<>>

\* variant: Some(None) collapses to None (Option::flatten)
BuildOutput_flattened(w, outs, c) ==
    CASE w.ty = "Option" ->
            IF outs # <<>> /\ outs[1] = [some |-> <<>>] THEN [some |-> <<>>]
            ELSE [some |-> outs]
      [] w.ty = "Tuple" -> [elems |-> outs]
      [] w.ty \in {"VStackStatic", "HStackStatic"} ->
            [inner |-> outs[1], alignment |-> w.v.alignment, spacing |-> w.v.spacing]
      [] w.ty \in DynamicContainers ->
            [children |-> outs, alignment |-> w.v.alignment, spacing |-> w.v.spacing]
      [] OTHER -> extract("MockBackend", w, c).val

\* variant: the first two elements of a tuple output are exchanged
BuildOutput_swapped(w, outs, c) ==
    CASE w.ty = "Option" -> [some |-> outs]
      [] w.ty = "Tuple" -> [elems |-> <<outs[2], outs[1]>> \o SubSeq(outs, 3, Len(outs))]
      [] w.ty \in {"VStackStatic", "HStackStatic"} ->
            [inner |-> outs[1], alignment |-> w.v.alignment, spacing |-> w.v.spacing]
      [] w.ty \in DynamicContainers ->
            [children |-> outs, alignment |-> w.v.alignment, spacing |-> w.v.spacing]
      [] OTHER -> extract("MockBackend", w, c).val

\* the Output a MockBackend extractor builds for w once its components'
\* outputs are available
BuildOutput(w, outs, c) ==
    CASE w.ty = "Option" -> [some |-> outs]
      [] w.ty = "Tuple" -> [elems |-> outs]
      [] w.ty \in {"VStackStatic", "HStackStatic"} ->
            [inner |-> outs[1], alignment |-> w.v.alignment, spacing |-> w.v.spacing]
      [] w.ty \in DynamicContainers ->
            [children |-> outs, alignment |-> w.v.alignment, spacing |-> w.v.spacing]
      [] OTHER -> extract("MockBackend", w, c).val

\* what the call of frame f returns when the extractor succeeded: the output
\* itself on the static path; on the dynamic path the boxed output, passed
\* through the type's converter and downcast to MockDynamicChild
ReturnValue(f, be, c) ==
    LET out == BuildOutput(f.node, f.outs, c)
        tid == type_id(f.node)
        boxed == Box(OutputType("MockBackend", tid), out)
        converted == IF tid \in DOMAIN be.registry.converters
                     THEN CallConverter(be.registry.converters[tid], boxed)
                     ELSE Ok(boxed)
    IN IF f.mode = "static" THEN Ok(out)
       ELSE IF ~converted.ok THEN converted
       ELSE IF converted.val.ty # "MockDynamicChild"
            THEN Err(OutputDowncastFailed("MockDynamicChild"))
            ELSE Ok(converted.val.v)

\* variant: a failed component leaves a hole in the caller's outputs and the
\* caller goes on with its next component
Deliver_with_hole(callers, r) ==
    IF callers = <<>> THEN callers
    ELSE IF r.ok THEN [callers EXCEPT ![Len(callers)].outs = Append(@, r.val)]
         ELSE [callers EXCEPT ![Len(callers)].outs = Append(@, [hole |-> r.err])]

\* variant: the caller does not record the returned output
Deliver_dropping(callers, r) ==
    IF callers = <<>> THEN callers
    ELSE IF r.ok THEN callers
         ELSE [callers EXCEPT ![Len(callers)].err = <<r.err>>]

\* the call on top of the stack returns r: the caller, now on top, takes the
\* output as its next component output, or holds the error for `?`
Deliver(callers, r) ==
    IF callers = <<>> THEN callers
    ELSE IF r.ok THEN [callers EXCEPT ![Len(callers)].outs = Append(@, r.val)]
         ELSE [callers EXCEPT ![Len(callers)].err = <<r.err>>]

Top == stack[Len(stack)]
Callers == SubSeq(stack, 1, Len(stack) - 1)


\* tuple elements: the filler, another leaf, and two dynamic containers that
\* fail to extract, each for a different unregistered child type
FailUser == Stack_child(Stack_child(VStack_dynamic, TextA), UserSelf)
FailOption == Stack_child(HStack_dynamic, OptionChild)
Varied == {ButtonA, FailUser, FailOption}

\* the tuples of arity n that differ from (TextA, .., TextA) in the positions S
TuplesVarying(n, S) ==
    {Tuple_of([i \in 1..n |-> IF i \in S THEN f[i] ELSE TextA]) : f \in [S -> Varied]}

\* the sets of at most MaxVaried positions of a tuple of arity n
VariedPositions(n) == {S \in SUBSET (1..n) : Cardinality(S) <= MaxVaried}

OptionPool ==
    {Option_none, Option_some(TextA), Option_some(Option_none),
     Option_some(Option_some(TextB)), Option_some(FailUser),
     Option_some(Tuple_of(<<FailOption, TextA>>)),
     Option_some(Tuple_of(<<ButtonA, Option_some(SpacerA)>>))}

\* statically typed containers, nested tuples, static and dynamic mixed
StaticPool ==
    {VStack_new(Tuple_of(<<Option_some(TextA), Option_none, Option_some(TextB)>>)),
     Stack_spacing(HStack_new(Tuple_of(<<TextA, ButtonA>>)), 5),
     Tuple_of(<<Tuple_of(<<Tuple_of(<<TextA, TextB>>), Tuple_of(<<TextB, TextA>>)>>),
                VStack_new(Tuple_of(<<HStack_new(Tuple_of(<<TextA, TextB>>)),
                                      VStack_new(Tuple_of(<<TextB, SpacerA>>))>>))>>),
     VStack_new(Tuple_of(<<TextA, DeepOk>>)),
     VStack_new(Tuple_of(<<DeepFail, Option_some(TextA)>>))}

WalkLeaves == {TextA, ButtonA, SpacerA, UserSelf, UserLabel}


InitWalk ==
    /\ extractors = HashMap_new
    /\ converters = HashMap_new
    /\ backend = MockBackend_new
    /\ \/ \E n \in MinArity..MaxArity :
             \E S \in VariedPositions(n) : view \in TuplesVarying(n, S)
       \/ view \in OptionPool \cup StaticPool \cup WalkLeaves
       \/ \E n \in 0..MaxChildren :
             \E cs \in ChildLists(n) : view = Stack_children(VStack_dynamic, cs)
    /\ ctx = RenderContext_new(1)
    /\ \/ /\ Extractable("MockBackend", view)
          /\ op = [name |-> "extract", B |-> "MockBackend"]
          /\ stack = <<Frame(view, <<>>, "static")>>
       \/ /\ op = [name |-> "MockBackend::extract_dynamic"]
          /\ stack = <<Frame(view, <<>>, "dynamic")>>
    /\ visited = << <<>> >>
    /\ walk_result = NoResult
    /\ result = NoResult
    /\ h_registered = {}
    /\ h_lastB = HashMap_new
    /\ h_replaced = {}
    /\ h_ordered = TRUE
    /\ h_used = FALSE
    /\ nregs = 0
    /\ pc = [t \in Threads |-> "idle"]
    /\ t_local = [t \in Threads |-> NoResult]
    /\ t_result = [t \in Threads |-> NoResult]
    /\ backend2 = MockBackend_new
    /\ prev = NoCall
    /\ AppIdle

walkFixed == <<extractors, converters, backend, view, ctx, op, result,
               historyVars, h_used, nregs, threadVars, dynVars, appVars>>

\* a dynamic call finds no extractor for the view's type (or the closure's
\* downcast fails): it returns the error without calling any extractor
W_Reject ==
    /\ stack # <<>>
    /\ Top.err = <<>>
    /\ Rejection(Top, FrameBackend(Len(stack))) # <<>>
    /\ LET r == Err(Rejection(Top, FrameBackend(Len(stack)))[1])
       IN /\ stack' = Deliver(Callers, r)
          /\ walk_result' = IF Len(stack) = 1 THEN r ELSE walk_result
    /\ UNCHANGED <<visited, walkFixed>>

\* the extractor on top of the stack calls extract (or extract_dynamic) on
\* its next component
W_Call ==
    /\ stack # <<>>
    /\ Top.err = <<>>
    /\ Rejection(Top, FrameBackend(Len(stack))) = <<>>
    /\ Len(Top.outs) < Len(Kids(Top.node))
    /\ LET k == Len(Top.outs) + 1
           callee == Frame(Kids(Top.node)[k], Append(Top.path, k), KidMode(Top.node))
       IN /\ stack' = Append(stack, callee)
          /\ visited' = Append(visited, callee.path)
    /\ UNCHANGED <<walk_result, walkFixed>>

\* all components are extracted (a leaf has none): the call returns
W_Return ==
    /\ stack # <<>>
    /\ Top.err = <<>>
    /\ Rejection(Top, FrameBackend(Len(stack))) = <<>>
    /\ Len(Top.outs) = Len(Kids(Top.node))
    /\ LET r == ReturnValue(Top, FrameBackend(Len(stack)), ctx)
       IN /\ stack' = Deliver(Callers, r)
          /\ walk_result' = IF Len(stack) = 1 THEN r ELSE walk_result
    /\ UNCHANGED <<visited, walkFixed>>

\* a component returned Err: `?` returns it from the caller at once
W_Propagate ==
    /\ stack # <<>>
    /\ Top.err # <<>>
    /\ LET r == Err(Top.err[1])
       IN /\ stack' = Deliver(Callers, r)
          /\ walk_result' = IF Len(stack) = 1 THEN r ELSE walk_result
    /\ UNCHANGED <<visited, walkFixed>>

NextWalk == W_Reject \/ W_Call \/ W_Return \/ W_Propagate

SpecWalk == InitWalk /\ [][NextWalk]_vars

\* the thread making the call keeps running until the call has returned
SpecWalkFair == SpecWalk /\ WF_vars(NextWalk)

Finished == stack = <<>>

\* the stepwise call returns what the extractors compute as a whole
WalkAgreesWithExtract ==
    Finished =>
        walk_result = IF op.name = "extract"
                      THEN extract("MockBackend", view, ctx)
                      ELSE MockBackend_extract_dynamic(backend, view, ctx)


\* MockBackend::extract on element i of the tuple under extraction, alone
ElemResult(i) == extract("MockBackend", view.v.elems[i], ctx)

FailingElems == {i \in 1..Len(view.v.elems) : ~ElemResult(i).ok}

\* C15: static extraction of a tuple (arity 2 to 12), or of Some(v), with an
\* element whose extraction fails returns Err with the error of the
\* lowest-index failing element; no element after that one is extracted, and
\* neither a partial tuple nor an aggregated error is returned.
C15_FirstElementErrorPropagates ==
    /\ (op.name = "extract" /\ view.ty = "Tuple" /\ FailingElems # {}) =>
          /\ \A j \in 1..Len(visited) :
                visited[j] # <<>> => visited[j][1] <= Min(FailingElems)
          /\ Finished => walk_result = ElemResult(Min(FailingElems))
    /\ (/\ op.name = "extract"
        /\ view.ty = "Option"
        /\ view.v.some # <<>>
        /\ ~extract("MockBackend", view.v.some[1], ctx).ok) =>
          (Finished => walk_result = extract("MockBackend", view.v.some[1], ctx))

\* a 12-tuple with two failing elements, failing for different types, has
\* returned the error of the earlier one, which is not the first element
C15_Witness ==
    /\ op.name = "extract"
    /\ view.ty = "Tuple"
    /\ Len(view.v.elems) = MaxArity
    /\ Cardinality(FailingElems) = 2
    /\ Min(FailingElems) > 1
    /\ view.v.elems[Min(FailingElems)] = FailOption
    /\ \E i \in FailingElems : view.v.elems[i] = FailUser
    /\ Finished
    /\ walk_result = Err(UnregisteredType("Option"))

\* C16: for every arity n from 2 to 12 and every n-tuple of views that
\* extract, static extraction returns an n-tuple whose element i equals the
\* static extraction of element i alone, for every i.
C16_TupleElementwise ==
    (/\ op.name = "extract"
     /\ view.ty = "Tuple"
     /\ FailingElems = {}
     /\ Finished) =>
        /\ walk_result.ok
        /\ Len(walk_result.val.elems) = Len(view.v.elems)
        /\ \A i \in 1..Len(view.v.elems) : Ok(walk_result.val.elems[i]) = ElemResult(i)

\* a 12-tuple holding a button among texts, in a position other than the
\* first two, was extracted
C16_Witness ==
    /\ op.name = "extract"
    /\ view.ty = "Tuple"
    /\ Len(view.v.elems) = MaxArity
    /\ FailingElems = {}
    /\ \E i \in 3..MaxArity : view.v.elems[i] = ButtonA
    /\ view.v.elems[1] = ButtonA
    /\ Finished
    /\ walk_result.ok

\* C17: static extraction of an optional view returns Ok(Some(extract(v)))
\* for Some(v) and Ok(None) for None, nested options included: Some(None)
\* extracts to Some(None).
C17_OptionPassThrough ==
    (op.name = "extract" /\ view.ty = "Option" /\ Finished) =>
        /\ view = Option_none => walk_result = Ok([some |-> <<>>])
        /\ view = Option_some(Option_none)
              => walk_result = Ok([some |-> <<[some |-> <<>>]>>])
        /\ (/\ view.v.some # <<>>
            /\ extract("MockBackend", view.v.some[1], ctx).ok) =>
              walk_result
                  = Ok([some |-> <<extract("MockBackend", view.v.some[1], ctx).val>>])

\* Some(None) was extracted
C17_Witness ==
    /\ op.name = "extract"
    /\ view = Option_some(Option_none)
    /\ Finished
    /\ walk_result.ok
    /\ walk_result.val.some # <<>>


RECURSIVE NodeCount(_)
RECURSIVE NodeCountIn(_)
\* number of nodes of the view tree w
NodeCount(w) == 1 + NodeCountIn(Kids(w))

NodeCountIn(ws) ==
    IF ws = <<>> THEN 0 ELSE NodeCount(Head(ws)) + NodeCountIn(Tail(ws))

\* no node has been the subject of two extract / extract_dynamic calls
NoRevisit ==
    \A i, j \in 1..Len(visited) : i # j => visited[i] # visited[j]

\* C20: an extraction call on a finite view tree (static tuples, options and
\* containers, dynamic containers, nested) terminates and returns Ok or Err,
\* after calling the extractor of each node at most once; while it has not
\* returned it can always take its next step: no call waits on another.
C20_TerminatesSinglePass ==
    /\ [](/\ NoRevisit
          /\ Len(visited) <= NodeCount(view)
          /\ ~Finished => ENABLED NextWalk
          /\ Finished => walk_result # NoResult)
    /\ <>Finished

\* the nested tuple of static containers has been extracted, every one of
\* its nodes exactly once
C20_Witness ==
    /\ Finished
    /\ op.name = "extract"
    /\ view.ty = "Tuple"
    /\ view.v.elems[1].ty = "Tuple"
    /\ view.v.elems[2].ty = "VStackStatic"
    /\ NodeCount(view) > 12
    /\ Len(visited) = NodeCount(view)
    /\ walk_result.ok


-----------------------------------------------------------------------------
(* Views whose type is related to a registered type without being it:      *)
(* statically typed containers, tuples, options and the unit view, handed  *)
(* to the backend on their own or boxed into a dynamic container           *)

RelatedTypes == {"VStackStatic", "HStackStatic", "Tuple", "Option", "Unit"}

RelatedViews ==
    {VStack_new(Tuple_of(<<TextA, TextA>>)),
     Stack_spacing(HStack_new(Tuple_of(<<TextA, ButtonA>>)), 5),
     Tuple_of(<<TextA, TextB>>),
     Option_some(TextA),
     Option_none,
     Unit_view}

\* the child lists of length n over the related views and a Text
RelatedLists(n) == [1..n -> RelatedViews \cup {TextA}]

InitExact ==
    /\ extractors = HashMap_new
    /\ converters = HashMap_new
    /\ backend = MockBackend_new
    /\ \/ view \in RelatedViews
       \/ \E n \in 0..MaxChildren : \E cs \in RelatedLists(n) :
             \/ view = Stack_children(VStack_dynamic, cs)
             \/ view = Stack_child(Stack_child(HStack_dynamic, TextB),
                                   Stack_children(VStack_dynamic, cs))
    /\ ctx = RenderContext_new(1)
    /\ op = [name |-> "new"]
    /\ result = NoResult
    /\ h_registered = {}
    /\ h_lastB = HashMap_new
    /\ h_replaced = {}
    /\ h_ordered = TRUE
    /\ h_used = FALSE
    /\ nregs = 0
    /\ pc = [t \in Threads |-> "idle"]
    /\ t_local = [t \in Threads |-> NoResult]
    /\ t_result = [t \in Threads |-> NoResult]
    /\ backend2 = MockBackend_new
    /\ prev = NoCall
    /\ stack = <<>>
    /\ visited = <<>>
    /\ walk_result = NoResult
    /\ AppIdle

SpecExact == InitExact /\ [][NextDyn]_vars

\* C21: dynamic lookup matches the exact concrete type only: on a backend
\* from new(), extract_dynamic on a statically typed VStack or HStack, a
\* tuple, an Option or the unit view returns Err(UnregisteredType) with that
\* view's type id, although the static path extracts the view where it has an
\* implementation; and a dynamic container holding such a view, at any
\* depth, returns the Err(UnregisteredType) of the first one in insertion order.
C21_ExactTypeLookup ==
    /\ (op.name = "MockBackend::extract_dynamic" /\ view.ty \in RelatedTypes) =>
          /\ result = Err(UnregisteredType(view.ty))
          /\ Extractable("MockBackend", view) => extract("MockBackend", view, ctx).ok
    /\ (/\ op.name \in ExtractionOps
        /\ view.ty \in DynamicContainers
        /\ FirstUnregisteredIn(view.v.children) # <<>>) =>
          /\ FirstUnregisteredIn(view.v.children)[1] \in RelatedTypes
          /\ result = Err(UnregisteredType(FirstUnregisteredIn(view.v.children)[1]))

\* the backend turned away a container nested in a container whose second
\* child is Some(Text), after a Text child
C21_Witness ==
    /\ op.name = "MockBackend::extract_dynamic"
    /\ view.ty = "HStackDyn"
    /\ Len(view.v.children) = 2
    /\ view.v.children[2].ty = "VStackDyn"
    /\ Len(view.v.children[2].v.children) >= 2
    /\ view.v.children[2].v.children[1] = TextA
    /\ view.v.children[2].v.children[2] = Option_some(TextA)
    /\ result = Err(UnregisteredType("Option"))


-----------------------------------------------------------------------------
(* An interactive component and the calls the application makes on it:     *)
(* the Enableable / Pressable / Focusable / Hoverable methods and          *)
(* Model::update                                                           *)

ComponentKinds == {"InteractionState", "Interactive", "Button"}

TraitMethods ==
    {"enable", "disable", "press", "release", "focus", "unfocus", "hover", "unhover"}

\* x.method() for a component x of the given kind (a bare InteractionState
\* is held as [bits |-> u8])
CallMethod(kind, method, x) ==
    CASE kind = "InteractionState" ->
            (CASE method = "enable" -> [bits |-> InteractionState_enable(x.bits)]
               [] method = "disable" -> [bits |-> InteractionState_disable(x.bits)]
               [] method = "press" -> [bits |-> InteractionState_press(x.bits)]
               [] method = "release" -> [bits |-> InteractionState_release(x.bits)]
               [] method = "focus" -> [bits |-> InteractionState_focus(x.bits)]
               [] method = "unfocus" -> [bits |-> InteractionState_unfocus(x.bits)]
               [] method = "hover" -> [bits |-> InteractionState_hover(x.bits)]
               [] method = "unhover" -> [bits |-> InteractionState_unhover(x.bits)])
      [] kind = "Interactive" ->
            (CASE method = "enable" -> Interactive_enable(x)
               [] method = "disable" -> Interactive_disable(x)
               [] method = "press" -> Interactive_press(x)
               [] method = "release" -> Interactive_release(x)
               [] method = "focus" -> Interactive_focus(x)
               [] method = "unfocus" -> Interactive_unfocus(x)
               [] method = "hover" -> Interactive_hover(x)
               [] method = "unhover" -> Interactive_unhover(x))
      [] kind = "Button" ->
            (CASE method = "enable" -> Button_enable(x)
               [] method = "disable" -> Button_disable(x)
               [] method = "press" -> Button_press(x)
               [] method = "release" -> Button_release(x)
               [] method = "focus" -> Button_focus(x)
               [] method = "unfocus" -> Button_unfocus(x)
               [] method = "hover" -> Button_hover(x)
               [] method = "unhover" -> Button_unhover(x))

\* the four is_* queries and can_receive_focus() of a component
Queries(wd) ==
    CASE wd.kind = "InteractionState" ->
            [enabled |-> InteractionState_is_enabled(wd.val.bits),
             pressed |-> InteractionState_is_pressed(wd.val.bits),
             focused |-> InteractionState_is_focused(wd.val.bits),
             hovered |-> InteractionState_is_hovered(wd.val.bits),
             can_receive_focus |-> InteractionState_can_receive_focus(wd.val.bits)]
      [] wd.kind = "Interactive" ->
            [enabled |-> Interactive_is_enabled(wd.val),
             pressed |-> Interactive_is_pressed(wd.val),
             focused |-> Interactive_is_focused(wd.val),
             hovered |-> Interactive_is_hovered(wd.val),
             can_receive_focus |-> Interactive_can_receive_focus(wd.val)]
      [] wd.kind = "Button" ->
            [enabled |-> Button_is_enabled(wd.val),
             pressed |-> Button_is_pressed(wd.val),
             focused |-> Button_is_focused(wd.val),
             hovered |-> Button_is_hovered(wd.val),
             can_receive_focus |-> Button_can_receive_focus(wd.val)]

\* the messages Model::update accepts for a component of the given kind
MessagesOf(kind) ==
    CASE kind = "Interactive" -> InteractionMessages
      [] kind = "Button" -> ButtonMessages
      [] OTHER -> {}

\* the components as the application constructs them
NewComponents ==
    {[kind |-> "InteractionState", val |-> [bits |-> InteractionState_default]],
     [kind |-> "Interactive", val |-> Interactive_new],
     [kind |-> "Button", val |-> Button_new("A")],
     [kind |-> "Button", val |-> Button_background_color(Button_new("B"), "BLUE")]}

InitWidget ==
    /\ extractors = HashMap_new
    /\ converters = HashMap_new
    /\ backend = MockBackend_new
    /\ view = TextA
    /\ ctx = RenderContext_new(1)
    /\ op = [name |-> "new"]
    /\ result = NoResult
    /\ h_registered = {}
    /\ h_lastB = HashMap_new
    /\ h_replaced = {}
    /\ h_ordered = TRUE
    /\ h_used = FALSE
    /\ nregs = 0
    /\ pc = [t \in Threads |-> "idle"]
    /\ t_local = [t \in Threads |-> NoResult]
    /\ t_result = [t \in Threads |-> NoResult]
    /\ backend2 = MockBackend_new
    /\ prev = NoCall
    /\ stack = <<>>
    /\ visited = <<>>
    /\ walk_result = NoResult
    /\ widget \in NewComponents
    /\ shared_model = [kind |-> "none"]
    /\ mutex = 0
    /\ w_pc = <<>>
    /\ w_i = <<>>
    /\ w_local = <<>>
    /\ h_calls = <<>>

widgetFixed == <<extractors, converters, backend, view, ctx, result, historyVars,
                 h_used, nregs, threadVars, dynVars, walkVars, workerVars, h_calls>>

\* component = component.method()
C_Method(method) ==
    /\ widget' = [widget EXCEPT !.val = CallMethod(widget.kind, method, @)]
    /\ op' = [name |-> method]
    /\ UNCHANGED widgetFixed

\* component = component.update(message)
C_Update(message) ==
    /\ message \in MessagesOf(widget.kind)
    /\ widget' = [widget EXCEPT !.val = IF widget.kind = "Button"
                                         THEN Button_update(@, message)
                                         ELSE Interactive_update(@, message)]
    /\ op' = [name |-> "update", message |-> message]
    /\ UNCHANGED widgetFixed

NextWidget ==
    \/ \E method \in TraitMethods : C_Method(method)
    \/ \E message \in InteractionMessages \cup ButtonMessages : C_Update(message)

SpecWidget == InitWidget /\ [][NextWidget]_vars

\* C23: Button::update(Clicked) returns a button equal to the one it was
\* given, in every button state including disabled; and
\* Button::update(Interaction(m)) leaves text and background_color unchanged,
\* changing at most the interaction state.
C23_ButtonUpdateFrame ==
    [][(op'.name = "update" /\ widget.kind = "Button") =>
            /\ op'.message = Clicked => widget' = widget
            /\ widget'.kind = "Button"
            /\ widget'.val.text = widget.val.text
            /\ widget'.val.background_color = widget.val.background_color]_vars

\* a disabled, pressed button with a non-default background was sent Clicked
C23_Witness ==
    /\ widget.kind = "Button"
    /\ op.name = "update"
    /\ op.message = Clicked
    /\ ~Button_is_enabled(widget.val)
    /\ Button_is_pressed(widget.val)
    /\ widget.val.background_color = "BLUE"


FlagNames == {"enabled", "pressed", "focused", "hovered"}

\* the four flags of a component, as its is_* queries report them
Flags(wd) == [f \in FlagNames |-> Queries(wd)[f]]

\* the flag a trait method is about, and the value it requests
MethodEffect(method) ==
    CASE method = "enable" -> [flag |-> "enabled", value |-> TRUE]
      [] method = "disable" -> [flag |-> "enabled", value |-> FALSE]
      [] method = "press" -> [flag |-> "pressed", value |-> TRUE]
      [] method = "release" -> [flag |-> "pressed", value |-> FALSE]
      [] method = "focus" -> [flag |-> "focused", value |-> TRUE]
      [] method = "unfocus" -> [flag |-> "focused", value |-> FALSE]
      [] method = "hover" -> [flag |-> "hovered", value |-> TRUE]
      [] method = "unhover" -> [flag |-> "hovered", value |-> FALSE]

\* the flag an InteractionMessage is about, and the value it requests
MessageEffect(m) ==
    CASE m.tag = "EnabledChanged" -> [flag |-> "enabled", value |-> m.value]
      [] m.tag = "PressStateChanged" -> [flag |-> "pressed", value |-> m.value]
      [] m.tag = "FocusChanged" -> [flag |-> "focused", value |-> m.value]
      [] m.tag = "HoverChanged" -> [flag |-> "hovered", value |-> m.value]

\* C24: from each combination of the ENABLED, PRESSED, FOCUSED and HOVERED
\* flags, each of enable/disable, press/release, focus/unfocus, hover/unhover
\* (on InteractionState, Interactive and Button) and each InteractionMessage
\* applied by update sets or clears exactly its own flag to the requested
\* value and leaves the other three flags unchanged.
C24_OwnFlagOnly ==
    [][/\ op'.name \in TraitMethods =>
             Flags(widget') = [Flags(widget) EXCEPT
                                  ![MethodEffect(op'.name).flag] = MethodEffect(op'.name).value]
       /\ (op'.name = "update" /\ op'.message # Clicked) =>
             LET m == IF widget.kind = "Button" THEN op'.message.msg ELSE op'.message
             IN Flags(widget') = [Flags(widget) EXCEPT
                                     ![MessageEffect(m).flag] = MessageEffect(m).value]]_vars

\* release() was applied to a button that is disabled, focused and hovered,
\* and these three flags are as they were
C24_Witness ==
    /\ widget.kind = "Button"
    /\ op.name = "release"
    /\ Flags(widget) = [enabled |-> FALSE, pressed |-> FALSE,
                        focused |-> TRUE, hovered |-> TRUE]

\* C25: in every reachable state of an InteractionState, Interactive or
\* Button, can_receive_focus() equals is_enabled(); focus() and
\* FocusChanged(true) set the focus whether or not the component is enabled.
C25_FocusabilityIsEnabledness ==
    /\ [](widget.kind \in ComponentKinds
            /\ Queries(widget).can_receive_focus = Queries(widget).enabled)
    /\ [][/\ op'.name = "focus" => Queries(widget').focused
          /\ (op'.name = "update" /\ op'.message \in {FocusChanged(TRUE),
                                                     Interaction(FocusChanged(TRUE))})
                => Queries(widget').focused]_vars

\* a disabled component has just been given the focus by focus()
C25_Witness ==
    /\ op.name = "focus"
    /\ widget.kind = "Interactive"
    /\ ~Queries(widget).enabled
    /\ ~Queries(widget).can_receive_focus
    /\ Queries(widget).focused


-----------------------------------------------------------------------------
(* Two threads updating one model behind Arc<Mutex<..>>                    *)
(* (tests/concurrency.rs, concurrent_interaction_state_updates): each      *)
(* iteration locks, clones the model, updates the clone, stores it back,   *)
(* sleeps, and drops the guard                                             *)

\* thread 1 works on the primary button, thread 2 on the secondary one;
\* 0 is the main thread
Workers == {1, 2}
MainThread == 0

\* the test's InteractionMessage enum
PrimaryHover(b) == [tag |-> "PrimaryHover", value |-> b]
PrimaryFocus(b) == [tag |-> "PrimaryFocus", value |-> b]
PrimaryPress(b) == [tag |-> "PrimaryPress", value |-> b]
SecondaryHover(b) == [tag |-> "SecondaryHover", value |-> b]
SecondaryFocus(b) == [tag |-> "SecondaryFocus", value |-> b]
SecondaryPress(b) == [tag |-> "SecondaryPress", value |-> b]
Click(name) == [tag |-> "Click", value |-> name]

\* the `interactions` array of each thread
interactions(t) ==
    IF t = 1
    THEN <<PrimaryHover(TRUE), PrimaryFocus(TRUE), PrimaryPress(TRUE), Click("Primary"),
           PrimaryPress(FALSE), PrimaryFocus(FALSE), PrimaryHover(FALSE)>>
    ELSE <<SecondaryHover(TRUE), SecondaryFocus(TRUE), SecondaryPress(TRUE),
           Click("Secondary"),
           SecondaryPress(FALSE), SecondaryFocus(FALSE), SecondaryHover(FALSE)>>

initial_model ==
    [primary_button |->
        Button_enable(Button_background_color(Button_new("Primary"), "BLUE")),
     secondary_button |->
        Button_enable(Button_background_color(Button_new("Secondary"), "GREEN")),
     interaction_count |-> 0,
     last_interaction |-> [what |-> "None", value |-> "None"]]

\* <InteractiveModel as Model>::update
InteractiveModel_update(m, message) ==
    LET shown == IF message.tag = "Click" THEN message.value
                 ELSE IF message.value THEN "true" ELSE "false"
        counted == [m EXCEPT !.interaction_count = @ + 1,
                             !.last_interaction = [what |-> message.tag,
                                                   value |-> shown]]
    IN CASE message.tag = "PrimaryHover" ->
               [counted EXCEPT !.primary_button =
                    IF message.value THEN Button_hover(@) ELSE Button_unhover(@)]
         [] message.tag = "PrimaryFocus" ->
               [counted EXCEPT !.primary_button =
                    IF message.value THEN Button_focus(@) ELSE Button_unfocus(@)]
         [] message.tag = "PrimaryPress" ->
               [counted EXCEPT !.primary_button =
                    IF message.value THEN Button_press(@) ELSE Button_release(@)]
         [] message.tag = "SecondaryHover" ->
               [counted EXCEPT !.secondary_button =
                    IF message.value THEN Button_hover(@) ELSE Button_unhover(@)]
         [] message.tag = "SecondaryFocus" ->
               [counted EXCEPT !.secondary_button =
                    IF message.value THEN Button_focus(@) ELSE Button_unfocus(@)]
         [] message.tag = "SecondaryPress" ->
               [counted EXCEPT !.secondary_button =
                    IF message.value THEN Button_press(@) ELSE Button_release(@)]
         [] message.tag = "Click" -> counted

InitWorkers ==
    /\ extractors = HashMap_new
    /\ converters = HashMap_new
    /\ backend = MockBackend_new
    /\ view = TextA
    /\ ctx = RenderContext_new(1)
    /\ op = [name |-> "spawn"]
    /\ result = NoResult
    /\ h_registered = {}
    /\ h_lastB = HashMap_new
    /\ h_replaced = {}
    /\ h_ordered = TRUE
    /\ h_used = FALSE
    /\ nregs = 0
    /\ pc = [t \in Threads |-> "idle"]
    /\ t_local = [t \in Threads |-> NoResult]
    /\ t_result = [t \in Threads |-> NoResult]
    /\ backend2 = MockBackend_new
    /\ prev = NoCall
    /\ stack = <<>>
    /\ visited = <<>>
    /\ walk_result = NoResult
    /\ widget = [kind |-> "none"]
    /\ shared_model = initial_model
    /\ mutex = 0
    /\ w_pc = [t \in Workers \cup {MainThread} |-> IF t = MainThread THEN "join" ELSE "lock"]
    /\ w_i = [t \in Workers |-> 1]
    /\ w_local = [t \in Workers |-> initial_model]
    /\ h_calls = <<>>

workersFixed == <<extractors, converters, backend, view, ctx, op, result, historyVars,
                  h_used, nregs, threadVars, dynVars, walkVars, widget, h_calls>>

\* variant: lock() returns without waiting for the current holder
Worker_Lock_no_exclusion(t) ==
    /\ w_pc[t] = "lock"
    /\ mutex' = t
    /\ w_pc' = [w_pc EXCEPT ![t] = "clone"]
    /\ UNCHANGED <<shared_model, w_i, w_local, workersFixed>>

\* let mut model = model_clone.lock().unwrap()
Worker_Lock(t) ==
    /\ w_pc[t] = "lock"
    /\ mutex = 0
    /\ mutex' = t
    /\ w_pc' = [w_pc EXCEPT ![t] = "clone"]
    /\ UNCHANGED <<shared_model, w_i, w_local, workersFixed>>

\* model.clone()
Worker_Clone(t) ==
    /\ w_pc[t] = "clone"
    /\ w_local' = [w_local EXCEPT ![t] = shared_model]
    /\ w_pc' = [w_pc EXCEPT ![t] = "update"]
    /\ UNCHANGED <<shared_model, mutex, w_i, workersFixed>>

\* .update(interaction)
Worker_Update(t) ==
    /\ w_pc[t] = "update"
    /\ w_local' = [w_local EXCEPT ![t] =
                      InteractiveModel_update(@, interactions(t)[w_i[t]])]
    /\ w_pc' = [w_pc EXCEPT ![t] = "store"]
    /\ UNCHANGED <<shared_model, mutex, w_i, workersFixed>>

\* *model = ..
Worker_Store(t) ==
    /\ w_pc[t] = "store"
    /\ shared_model' = w_local[t]
    /\ w_pc' = [w_pc EXCEPT ![t] = "sleep"]
    /\ UNCHANGED <<mutex, w_i, w_local, workersFixed>>

\* thread::sleep, then the guard is dropped at the end of the iteration and
\* the loop goes on to the next interaction, or the thread ends
Worker_Unlock(t) ==
    /\ w_pc[t] = "sleep"
    /\ mutex' = 0
    /\ w_i' = [w_i EXCEPT ![t] = @ + 1]
    /\ w_pc' = [w_pc EXCEPT ![t] =
                   IF w_i[t] + 1 > Len(interactions(t)) THEN "done" ELSE "lock"]
    /\ UNCHANGED <<shared_model, w_local, workersFixed>>

\* handle.join() for both threads, then shared_model.lock()
Main_Join ==
    /\ w_pc[MainThread] = "join"
    /\ \A t \in Workers : w_pc[t] = "done"
    /\ mutex = 0
    /\ mutex' = MainThread
    /\ w_pc' = [w_pc EXCEPT ![MainThread] = "joined"]
    /\ UNCHANGED <<shared_model, w_i, w_local, workersFixed>>

NextWorkers ==
    \/ \E t \in Workers :
          \/ Worker_Lock(t)
          \/ Worker_Clone(t)
          \/ Worker_Update(t)
          \/ Worker_Store(t)
          \/ Worker_Unlock(t)
    \/ Main_Join

SpecWorkers == InitWorkers /\ [][NextWorkers]_vars

\* the updates thread t has stored so far
Stored(t) == (w_i[t] - 1) + (IF w_pc[t] = "sleep" THEN 1 ELSE 0)

\* the interaction state the test reads back: MockBackend::extract of the
\* button's view
ExtractedState(b) == extract("MockBackend", Button_view(b), ctx).val.interaction_state

Settled(b) ==
    /\ InteractionState_is_enabled(ExtractedState(b))
    /\ ~InteractionState_is_hovered(ExtractedState(b))
    /\ ~InteractionState_is_focused(ExtractedState(b))
    /\ ~InteractionState_is_pressed(ExtractedState(b))

\* C26: with every update done as lock, clone, update, store under the
\* mutex, no update is lost in any interleaving of the two threads: the
\* interaction count is always the number of updates stored so far, it is 14
\* once both threads are joined, and each button then is enabled, not
\* hovered, not focused and not pressed.
C26_NoLostUpdate ==
    /\ shared_model.interaction_count = Stored(1) + Stored(2)
    /\ w_pc[MainThread] = "joined" =>
          /\ shared_model.interaction_count
                = Len(interactions(1)) + Len(interactions(2))
          /\ shared_model.interaction_count = 14
          /\ Settled(shared_model.primary_button)
          /\ Settled(shared_model.secondary_button)

\* both threads are joined, and the first thread stored the last update
C26_Witness ==
    /\ w_pc[MainThread] = "joined"
    /\ shared_model.interaction_count = 14
    /\ shared_model.last_interaction = [what |-> "PrimaryHover", value |-> "false"]
    /\ Settled(shared_model.secondary_button)


-----------------------------------------------------------------------------
(* Error kinds of the backend's own extract_dynamic *)

MockDynamicChildVariants == {"Text", "Button", "Spacer", "VStack", "HStack"}

\* every type new() registers has a converter, and the converter takes the
\* output type of the type's extractor
ConvertersCoverExtractors(be) ==
    /\ DOMAIN be.registry.converters = DOMAIN be.registry.extractors
    /\ \A V \in DOMAIN be.registry.extractors :
          be.registry.converters[V].E = OutputType(be.registry.extractors[V].B, V)

\* C27: MockBackend::extract_dynamic on a backend from new() never returns
\* DowncastFailed or OutputDowncastFailed: every type registered by new() has
\* a converter into MockDynamicChild, and for every view the result is
\* Ok(MockDynamicChild), or Err(UnregisteredType) for the first view, the
\* view itself or a nested child, whose type is not registered.
C27_OnlyUnregisteredTypeErrors ==
    /\ ConvertersCoverExtractors(backend)
    /\ op.name = "MockBackend::extract_dynamic" =>
          /\ ~IsDowncastError(result)
          /\ IF FirstUnregistered(view) = <<>>
             THEN result.ok /\ result.val.variant \in MockDynamicChildVariants
             ELSE result = Err(UnregisteredType(FirstUnregistered(view)[1]))

\* the backend returned the UnregisteredType error of a child two levels down
C27_Witness ==
    /\ op.name = "MockBackend::extract_dynamic"
    /\ view.ty = "VStackDyn"
    /\ Len(view.v.children) = 1
    /\ view.v.children[1].ty = "HStackDyn"
    /\ view.v.children[1].v.children = <<UserSelf>>
    /\ result = Err(UnregisteredType("UserView"))


-----------------------------------------------------------------------------
(* Building a dynamic container: a chain of builder calls on dynamic()     *)

\* builder calls in one chain
MaxCalls == 3

\* the boxed views passed to child()
BuilderChildren == {TextA, ButtonA, HStackB}

\* the vectors passed to conditional_children()
BuilderLists == {<<>>, <<TextB>>, <<SpacerA, TextA>>}

BuilderCall(name, condition, children) ==
    [call |-> name, condition |-> condition, children |-> children]

InitBuilder ==
    /\ extractors = HashMap_new
    /\ converters = HashMap_new
    /\ backend = MockBackend_new
    /\ view \in {VStack_dynamic, HStack_dynamic}
    /\ ctx = RenderContext_new(1)
    /\ op = [name |-> "dynamic"]
    /\ result = NoResult
    /\ h_registered = {}
    /\ h_lastB = HashMap_new
    /\ h_replaced = {}
    /\ h_ordered = TRUE
    /\ h_used = FALSE
    /\ nregs = 0
    /\ pc = [t \in Threads |-> "idle"]
    /\ t_local = [t \in Threads |-> NoResult]
    /\ t_result = [t \in Threads |-> NoResult]
    /\ backend2 = MockBackend_new
    /\ prev = NoCall
    /\ stack = <<>>
    /\ visited = <<>>
    /\ walk_result = NoResult
    /\ widget = [kind |-> "none"]
    /\ shared_model = [kind |-> "none"]
    /\ mutex = 0
    /\ w_pc = <<>>
    /\ w_i = <<>>
    /\ w_local = <<>>
    /\ h_calls = <<>>

builderFixed == <<extractors, converters, backend, ctx, result, historyVars, h_used,
                  nregs, threadVars, dynVars, walkVars, widget, workerVars>>

\* stack = stack.child(Box::new(c))
B_Child(c) ==
    /\ Len(h_calls) < MaxCalls
    /\ view' = Stack_child(view, c)
    /\ op' = [name |-> "child"]
    /\ h_calls' = Append(h_calls, BuilderCall("child", TRUE, <<c>>))
    /\ UNCHANGED builderFixed

\* stack = stack.conditional_children(condition, children)
B_ConditionalChildren(condition, children) ==
    /\ Len(h_calls) < MaxCalls
    /\ view' = Stack_conditional_children(view, condition, children)
    /\ op' = [name |-> "conditional_children", condition |-> condition]
    /\ h_calls' = Append(h_calls, BuilderCall("conditional_children", condition, children))
    /\ UNCHANGED builderFixed

\* stack = stack.spacing(n)
B_Spacing(n) ==
    /\ Len(h_calls) < MaxCalls
    /\ view' = Stack_spacing(view, n)
    /\ op' = [name |-> "spacing"]
    /\ h_calls' = Append(h_calls, BuilderCall("spacing", FALSE, <<>>))
    /\ UNCHANGED builderFixed

\* stack = stack.alignment(a)
B_Alignment(a) ==
    /\ Len(h_calls) < MaxCalls
    /\ view' = Stack_alignment(view, a)
    /\ op' = [name |-> "alignment"]
    /\ h_calls' = Append(h_calls, BuilderCall("alignment", FALSE, <<>>))
    /\ UNCHANGED builderFixed

NextBuilder ==
    \/ \E c \in BuilderChildren : B_Child(c)
    \/ \E condition \in BOOLEAN, children \in BuilderLists :
          B_ConditionalChildren(condition, children)
    \/ B_Spacing(12)
    \/ B_Alignment("Center")

SpecBuilder == InitBuilder /\ [][NextBuilder]_vars

RECURSIVE Accumulated(_)
\* the concatenation, in call order, of each child and of each children list
\* passed with a true condition
Accumulated(calls) ==
    IF calls = <<>> THEN <<>>
    ELSE (IF Head(calls).call \in {"child", "conditional_children"} /\ Head(calls).condition
          THEN Head(calls).children ELSE <<>>) \o Accumulated(Tail(calls))

\* C28: after any chain of child and conditional_children calls starting
\* from dynamic(), the content of a dynamic VStack / HStack is the
\* concatenation, in call order, of each child and of each children list
\* whose condition was true; conditional_children(false, xs) leaves the
\* container unchanged, and none of these calls changes alignment or spacing.
C28_BuilderAccumulates ==
    /\ [](view.v.children = Accumulated(h_calls))
    /\ [][/\ op'.name \in {"child", "conditional_children"} =>
                /\ view'.v.alignment = view.v.alignment
                /\ view'.v.spacing = view.v.spacing
                /\ view'.ty = view.ty
          /\ (op'.name = "conditional_children" /\ ~op'.condition) => view' = view]_vars

\* a chain child, conditional_children(false, non-empty),
\* conditional_children(true, two views) on a container with changed
\* spacing or alignment holds three children
C28_Witness ==
    /\ Len(h_calls) >= 3
    /\ \E i \in 1..Len(h_calls) :
          /\ h_calls[i].call = "conditional_children"
          /\ ~h_calls[i].condition
          /\ h_calls[i].children # <<>>
    /\ \E i \in 1..Len(h_calls) :
          /\ h_calls[i].call = "conditional_children"
          /\ h_calls[i].condition
          /\ Len(h_calls[i].children) = 2
    /\ h_calls[1].call = "child"
    /\ Len(view.v.children) = 3


-----------------------------------------------------------------------------
(* A converter registered for a type without an extractor                  *)

\* C29: register_converter::<V, ..> on a registry where V has no extractor
\* does not register V: is_registered::<V>() stays false and len() and
\* is_empty() are unchanged; extract_and_convert on a V view then returns
\* Err(UnregisteredType) and the converter does not run; whenever the
\* extraction fails, extract_and_convert returns the extraction error
\* unchanged.
C29_ConverterAloneRegistersNothing ==
    /\ [][(op'.name = "register_converter" /\ ~is_registered(extractors, op'.V)) =>
             /\ ~is_registered(extractors', op'.V)
             /\ len(extractors') = len(extractors)
             /\ is_empty(extractors') = is_empty(extractors)]_vars
    /\ [](op.name = "extract_and_convert" =>
             /\ (~is_registered(extractors, type_id(view))
                 /\ type_id(view) \in DOMAIN converters) =>
                    result = Err(UnregisteredType(type_id(view)))
             /\ ~extract_dynamic(extractors, view, ctx).ok =>
                    result = extract_dynamic(extractors, view, ctx))

\* a view whose type has a converter and no extractor went through
\* extract_and_convert
C29_Witness ==
    /\ op.name = "extract_and_convert"
    /\ type_id(view) \in DOMAIN converters
    /\ ~is_registered(extractors, type_id(view))
    /\ ~is_empty(extractors)
    /\ result = Err(UnregisteredType(type_id(view)))


-----------------------------------------------------------------------------
(* A dynamic container dispatched through registries the application       *)
(* builds itself                                                           *)

\* register::<V, B>() calls of the application, the two dynamic containers
\* among them
DispatchRegisterCalls ==
    {[V |-> "VStackDyn", B |-> "MockBackend"],
     [V |-> "HStackDyn", B |-> "MockBackend"],
     [V |-> "Text", B |-> "MockBackend"],
     [V |-> "Text", B |-> "TestBackend"],
     [V |-> "UserView", B |-> "UserBackend"]}

\* register_converter calls of the application
DispatchConverterCalls ==
    {[V |-> "Text", E |-> "MockButton", f |-> "Button"],
     [V |-> "UserView", E |-> "MockText", f |-> "Text"]}

\* the containers handed to the registry
DispatchViews ==
    {VStack_dynamic,
     Stack_spacing(Stack_child(Stack_child(VStack_dynamic, TextA), ButtonA), 8),
     Stack_child(Stack_child(VStack_dynamic, TextA), UserSelf),
     HStackB,
     Stack_child(Stack_child(HStack_dynamic, SpacerA), UserLabel),
     Stack_child(VStack_dynamic, Stack_child(HStack_dynamic, UserSelf))}

InitDispatch ==
    /\ extractors = HashMap_new
    /\ converters = HashMap_new
    /\ backend = MockBackend_new
    /\ view \in DispatchViews
    /\ ctx = RenderContext_new(1)
    /\ op = [name |-> "new"]
    /\ result = NoResult
    /\ h_registered = {}
    /\ h_lastB = HashMap_new
    /\ h_replaced = {}
    /\ h_ordered = TRUE
    /\ h_used = FALSE
    /\ nregs = 0
    /\ pc = [t \in Threads |-> "idle"]
    /\ t_local = [t \in Threads |-> NoResult]
    /\ t_result = [t \in Threads |-> NoResult]
    /\ backend2 = MockBackend_new
    /\ prev = NoCall
    /\ stack = <<>>
    /\ visited = <<>>
    /\ walk_result = NoResult
    /\ AppIdle

NextDispatch ==
    \/ \E c \in DispatchRegisterCalls : register(c.V, c.B)
    \/ \E c \in DispatchConverterCalls : register_converter(c.V, c.E, c.f)
    \/ \E w \in DispatchViews : BuildView(w)
    \/ ExtractDynamic("MockBackend")

SpecDispatch == InitDispatch /\ [][NextDispatch]_vars

\* a registry that registers nothing but the container type V, with MockBackend
ContainerOnly(V) ==
    HashMap_insert(HashMap_new, TypeId_of(V), ExtractorClosure(V, "MockBackend"))

\* the view is a dynamic container that the registry dispatches to MockBackend
DispatchedToMock ==
    /\ view.ty \in {"VStackDyn", "HStackDyn"}
    /\ is_registered(extractors, view.ty)
    /\ extractors[TypeId_of(view.ty)].B = "MockBackend"

\* positions of the children whose type only the dispatching registry registers
ForeignChildren ==
    {i \in 1..Len(view.v.children) :
        /\ is_registered(extractors, type_id(view.v.children[i]))
        /\ ~is_registered(MockBackend_new.registry.extractors,
                          type_id(view.v.children[i]))}

\* C30: the children of a dynamic VStack / HStack are extracted with a
\* fresh MockBackend::new() registry, not with the dispatching registry:
\* every registry that registers the container type with MockBackend gives
\* the result of the registry that registers nothing else, and a child
\* whose type only the dispatching registry registers makes the extraction
\* fail with UnregisteredType.
C30_ChildrenUseFreshBackend ==
    (op.name = "extract_dynamic" /\ DispatchedToMock) =>
        /\ result = extract_dynamic(ContainerOnly(view.ty), view, ctx)
        /\ ForeignChildren # {} =>
              /\ ~result.ok
              /\ result.err.kind = "UnregisteredType"
              /\ ~is_registered(MockBackend_new.registry.extractors, result.err.type_id)

\* a container with a Text child and a UserView child went through a
\* registry that registers the container and UserView
C30_Witness ==
    /\ op.name = "extract_dynamic"
    /\ DispatchedToMock
    /\ ForeignChildren # {}
    /\ Len(view.v.children) = 2
    /\ ~is_registered(extractors, "Text")
    /\ result = Err(UnregisteredType("UserView"))

====
